---------------------------- MODULE Spec2Model ----------------------------
(***************************************************************************)
(* A model of the ya_psd decoder: the layer-tree reconstruction            *)
(* (into_layer_tree), the PackBits decompressor behind the lazy raw_data   *)
(* caches, the parse_psd pipeline over byte buffers, and the raw_data      *)
(* cache of a value that several threads share.                            *)
(*                                                                         *)
(* Pure functions of the source are operators that compute what the code   *)
(* computes; every loop of interest is also run one iteration per action.  *)
(* An outcome is "ok" (a value is returned), "err" (an Err is returned) or *)
(* "panic" (the thread unwinds: expect/unwrap/assert/slice out of range).  *)
(***************************************************************************)
EXTENDS Integers, Sequences, FiniteSets, TLC

VARIABLES
    \* into_layer_tree
    layers,     \* the Vec<LayerRecord> handed to into_layer_tree
    idx,        \* number of layers the for loop has consumed
    stack,      \* the stack of child lists
    tout,       \* outcome of into_layer_tree: [st, tree]
    \* ChannelInfo::raw_data / ImageData::raw_data (the get_or_init closure)
    rch,        \* the ChannelInfo or ImageData the closure reads (self)
    rpc,        \* position in the closure: "start", "loop", "done"
    rpos,       \* bytes of self.data already consumed (the slice `data`)
    rresult,    \* result / data_one_channel: the plane being built
    rlist,      \* ImageData: the planes pushed so far
    rwarned,    \* "may be error" has been printed
    rout,       \* outcome of the closure: [st, value]
    rin,        \* how self.data was put together: [runs, mode, at]
    \* parse_psd
    pinput,     \* the buffer handed to parse_psd
    pbuild,     \* "debug" (overflow checks on) or "release"
    ppc,        \* the parser parse_psd is about to call, or "done"
    prest,      \* the cursor: what is left of the input
    pparts,     \* the values the parsers have returned so far
    pout,       \* outcome of parse_psd: [st, val]
    pin,        \* how the buffer was put together: [blocks, envelope, plan, damage, at]
    \* raw_data called by several threads on one shared value
    cself,      \* the ChannelInfo or ImageData the threads share (&self)
    ccell,      \* self.raw_data, the OnceCell: None or Some(value)
    cowner,     \* the thread that runs the closure of get_or_init, 0 for none
    cpc,        \* per thread: "idle", "call" (in get_or_init), "init" (in the
                \* closure), "panicked" (unwound), "aborted" (process ended)
    cret,       \* per thread: the values its calls of raw_data returned
    cwrites,    \* number of times a value was stored in the cell
    craced,     \* a thread was in get_or_init while another ran the closure
    \* raw_data and into_static on a parsed Psd that one owner holds
    dpsd,       \* the Psd the owner holds
    dorig,      \* the Psd as parse_psd returned it
    dst,        \* "live", or "panic" / "hang" / "abort": a call did not return
    dn,         \* number of into_static calls that returned
    dops,       \* number of calls made
    dunreach,   \* the unreachable!() of ImageData::raw_data was executed
    dlast,      \* the last call: "parse", "image", "channel" or "into_static"
    din,        \* the document and how it was put together:
                \* [blocks, plan, image, bytes], and the build that reads it
    \* the machine the program runs on
    mem         \* its memory: "ample" or "short" (see with_capacity)

treeVars == <<layers, idx, stack, tout>>
rleVars == <<rch, rpc, rpos, rresult, rlist, rwarned, rout, rin>>
parseVars == <<pinput, pbuild, ppc, prest, pparts, pout, pin>>
cacheVars == <<cself, ccell, cowner, cpc, cret, cwrites, craced>>
detachVars == <<dpsd, dorig, dst, dn, dops, dunreach, dlast, din>>
envVars == <<mem>>
vars == <<treeVars, rleVars, parseVars, cacheVars, detachVars, envVars>>

-----------------------------------------------------------------------------
(* The allocation of a plane.  Vec::with_capacity(width * height) asks the *)
(* allocator for the bytes of the plane before a byte is decoded; when the *)
(* allocator fails the process is aborted (handle_alloc_error): no panic,  *)
(* no unwinding, no Err.  Whether a request is served is a matter of the   *)
(* machine: a request up to AllocSure bytes, the plane of the largest      *)
(* document the header admits, is taken to be served on every machine, a   *)
(* larger one is served by a machine of "ample" memory and by no other.    *)
(* A request beyond isize::MAX bytes is not put to the allocator at all:   *)
(* with_capacity panics with "capacity overflow", on every machine.        *)

Memories == {"ample", "short"}

\* No plane is asked for (the specifications that do not call raw_data).
MemIdle == mem = "ample"

\* 30000 x 30000, the largest width and height parse_header accepts.
AllocSure == 30000 * 30000

\* w * h > isize::MAX = 2^63 - 1, for u32 w, h.  Such a product has both
\* factors above 2^31 - 1, which is tested first.
CapacityOverflow(w, h) ==
    /\ w > 2147483647
    /\ h > 2147483647
    /\ w * h > (2147483647 + 1) * (2147483647 + 1) * 2 - 1

\* Vec::with_capacity(w as usize * h as usize) for u32 w, h (the product is
\* a usize of 64 bits and does not overflow): "ok" when the Vec is made,
\* "panic" for a capacity beyond isize::MAX, "abort" when the allocator
\* fails and the process is aborted.  A request of 0 bytes allocates
\* nothing.  The product is compared with AllocSure without being computed.
with_capacity(w, h, m) ==
    CASE CapacityOverflow(w, h) -> "panic"
      [] m = "ample" \/ w = 0 \/ h = 0 \/ w <= AllocSure \div h -> "ok"
      [] OTHER -> "abort"

\* The outcome of a closure that with_capacity ended with st.
NotAllocated(st) == [st |-> st, value |-> <<>>]

\* The outcome of a closure in which the process was ended for want of
\* memory.
RleAbort == [st |-> "abort", value |-> <<>>]

-----------------------------------------------------------------------------
(* Generic helpers                                                         *)

Min(S) == CHOOSE x \in S : \A y \in S : x <= y

Reverse(s) == [i \in 1..Len(s) |-> s[Len(s) + 1 - i]]

RECURSIVE Flatten(_)
Flatten(ss) == IF ss = <<>> THEN <<>> ELSE Head(ss) \o Flatten(Tail(ss))

\* Option
None == [some |-> FALSE]

Some(v) == [some |-> TRUE, v |-> v]

-----------------------------------------------------------------------------
(* Layer-tree reconstruction: layer_info.rs, into_layer_tree               *)

\* AdditionalLayerInformation values, as far as into_layer_tree reads them.
SectionDivider(t) == [kind |-> "SectionDivider", section_divider_type |-> t]
Unknown == [kind |-> "Unknown", section_divider_type |-> "-"]

\* The closure of find_map: Some(Start), Some(End) or None.
DividerOfInfo(info) ==
    IF info.kind = "SectionDivider"
    THEN CASE info.section_divider_type = "BoundingSectionDivider" -> "Start"
           [] info.section_divider_type \in {"OpenFolder", "ClosedFolder"} -> "End"
           [] OTHER -> "None"
    ELSE "None"

\* layer.additional_layer_info().iter().find_map(..): the first info for
\* which the closure returns Some.
Divider(layer) ==
    LET infos == layer.additional_layer_info
        hits == {k \in 1..Len(infos) : DividerOfInfo(infos[k]) # "None"}
    IN  IF hits = {} THEN "None" ELSE DividerOfInfo(infos[Min(hits)])

Leaf(layer) == [kind |-> "Leaf", record |-> layer, children |-> <<>>]
Node(layer, children) == [kind |-> "Node", record |-> layer, children |-> children]

\* A variant of the End arm that forgets layers.reverse().
NoReverseChildren(list) == list

\* What the End arm stores as the children of the new Node.
PoppedChildren(list) == Reverse(list)

\* One iteration of `for layer in layers`: the new stack, or a panic of one
\* of the expect("invalid layer structure") calls.
LayerStep(stk, layer) ==
    LET d == Divider(layer) IN
    CASE d = "Start" -> [st |-> "ok", stack |-> Append(stk, <<>>)]
      [] d = "End" ->
            IF Len(stk) = 0 THEN [st |-> "panic", stack |-> stk]
            ELSE LET popped == stk[Len(stk)]
                     rest == SubSeq(stk, 1, Len(stk) - 1)
                 IN  IF Len(rest) = 0 THEN [st |-> "panic", stack |-> rest]
                     ELSE [st |-> "ok",
                           stack |-> [rest EXCEPT ![Len(rest)] =
                                        Append(@, Node(layer, PoppedChildren(popped)))]]
      [] OTHER ->
            IF Len(stk) = 0 THEN [st |-> "panic", stack |-> stk]
            ELSE [st |-> "ok",
                  stack |-> [stk EXCEPT ![Len(stk)] = Append(@, Leaf(layer))]]

\* After the loop: stack.try_into::<[_; 1]>().expect(..), then list.reverse().
TreeFinish(stk) ==
    IF Len(stk) = 1 THEN [st |-> "ok", tree |-> Reverse(stk[1])]
    ELSE [st |-> "panic", tree |-> <<>>]

RECURSIVE TreeLoop(_, _, _)
TreeLoop(ls, i, stk) ==
    IF i > Len(ls) THEN TreeFinish(stk)
    ELSE LET r == LayerStep(stk, ls[i])
         IN  IF r.st = "ok" THEN TreeLoop(ls, i + 1, r.stack)
             ELSE [st |-> "panic", tree |-> <<>>]

into_layer_tree(ls) == TreeLoop(ls, 1, <<<<>>>>)

\* The leaves of a list of tree nodes, depth first, left to right.
RECURSIVE LeavesOf(_)
LeavesOf(nodes) ==
    IF nodes = <<>> THEN <<>>
    ELSE LET n == Head(nodes)
         IN  (IF n.kind = "Leaf" THEN <<n.record>> ELSE LeavesOf(n.children))
             \o LeavesOf(Tail(nodes))

\* The folder records of a list of tree nodes, depth first (folder before children).
RECURSIVE FoldersOf(_)
FoldersOf(nodes) ==
    IF nodes = <<>> THEN <<>>
    ELSE LET n == Head(nodes)
         IN  (IF n.kind = "Node" THEN <<n.record>> \o FoldersOf(n.children) ELSE <<>>)
             \o FoldersOf(Tail(nodes))

-----------------------------------------------------------------------------
(* Inputs of the layer-tree specification                                  *)

MaxLayers == 5

\* The additional-info lists a layer of the bounded inputs may carry.
InfoLists ==
    { <<>>,
      <<SectionDivider("AnyOtherType")>>,
      <<SectionDivider("BoundingSectionDivider")>>,
      <<SectionDivider("OpenFolder")>>,
      <<SectionDivider("ClosedFolder")>>,
      <<SectionDivider("AnyOtherType"), SectionDivider("BoundingSectionDivider")>>,
      <<Unknown, SectionDivider("ClosedFolder")>>,
      <<SectionDivider("BoundingSectionDivider"), SectionDivider("OpenFolder")>> }

\* A layer record: its position in the file names it.
MkLayer(i, infos) == [id |-> i, additional_layer_info |-> infos]

\* The layer list whose i-th layer carries the info list f[i].
LayerList(n, f) == [i \in 1..n |-> MkLayer(i, f[i])]

\* Scenario S4: [Bound, Leaf L1, Leaf L2, Open G1, Bound, Leaf L3, Close G2].
S4Layers ==
    << MkLayer(1, <<SectionDivider("BoundingSectionDivider")>>),
       MkLayer(2, <<>>),
       MkLayer(3, <<>>),
       MkLayer(4, <<SectionDivider("OpenFolder")>>),
       MkLayer(5, <<SectionDivider("BoundingSectionDivider")>>),
       MkLayer(6, <<>>),
       MkLayer(7, <<SectionDivider("ClosedFolder")>>) >>

\* The decompressor at rest (the specifications that do not run it).
RleIdle ==
    /\ rch = [kind |-> "none"]
    /\ rpc = "done"
    /\ rpos = 0
    /\ rresult = <<>>
    /\ rlist = <<>>
    /\ rwarned = FALSE
    /\ rout = [st |-> "run", value |-> <<>>]
    /\ rin = [runs |-> <<>>, mode |-> "none", at |-> 0]

\* parse_psd at rest (the specifications that do not run it).
ParseIdle ==
    /\ pinput = <<>>
    /\ pbuild = "debug"
    /\ ppc = "done"
    /\ prest = <<>>
    /\ pparts = <<>>
    /\ pout = [st |-> "run", val |-> <<>>]
    /\ pin = [blocks |-> 0, envelope |-> "empty", plan |-> <<>>,
              damage |-> "none", at |-> 0]

\* The threads that share a value (the bound of the cache specification).
MaxThreads == 2

\* No thread has called raw_data (the specifications without threads).
CacheIdle ==
    /\ cself = [kind |-> "none"]
    /\ ccell = [some |-> FALSE]
    /\ cowner = 0
    /\ cpc = [t \in 1..MaxThreads |-> "idle"]
    /\ cret = [t \in 1..MaxThreads |-> <<>>]
    /\ cwrites = 0
    /\ craced = FALSE

\* No Psd is held (the specifications without an owner).
DetachIdle ==
    /\ dpsd = <<>>
    /\ dorig = <<>>
    /\ dst = "live"
    /\ dn = 0
    /\ dops = 0
    /\ dunreach = FALSE
    /\ dlast = "none"
    /\ din = [blocks |-> 0, plan |-> <<>>, image |-> "none", bytes |-> <<>>,
              build |-> "debug"]

TreeInit ==
    /\ RleIdle
    /\ MemIdle
    /\ ParseIdle
    /\ CacheIdle
    /\ DetachIdle
    /\ \/ \E n \in 0..MaxLayers : \E f \in [1..n -> InfoLists] :
                layers = LayerList(n, f)
       \/ layers = S4Layers
    /\ idx = 0
    /\ stack = <<<<>>>>
    /\ tout = [st |-> "run", tree |-> <<>>]

\* One iteration of the for loop of into_layer_tree.
TreeIter ==
    /\ tout.st = "run"
    /\ idx < Len(layers)
    /\ LET r == LayerStep(stack, layers[idx + 1]) IN
        /\ idx' = idx + 1
        /\ stack' = r.stack
        /\ tout' = IF r.st = "ok" THEN tout ELSE [st |-> "panic", tree |-> <<>>]
    /\ UNCHANGED layers
    /\ UNCHANGED <<rleVars, parseVars, cacheVars, detachVars, envVars>>

\* The end of into_layer_tree: the singleton check and the final reverse.
TreeReturn ==
    /\ tout.st = "run"
    /\ idx = Len(layers)
    /\ tout' = TreeFinish(stack)
    /\ UNCHANGED <<layers, idx, stack>>
    /\ UNCHANGED <<rleVars, parseVars, cacheVars, detachVars, envVars>>

TreeNext == TreeIter \/ TreeReturn

SpecTree == TreeInit /\ [][TreeNext]_vars

-----------------------------------------------------------------------------
(* Claims about the layer tree (checked under SpecTree)                    *)

\* A layer that carries no group marker at all: none of its infos is a
\* section divider of type BoundingSectionDivider, OpenFolder or ClosedFolder.
NonDividerLayer(l) ==
    \A k \in 1..Len(l.additional_layer_info) :
        ~ ( /\ l.additional_layer_info[k].kind = "SectionDivider"
            /\ l.additional_layer_info[k].section_divider_type
                  \in {"BoundingSectionDivider", "OpenFolder", "ClosedFolder"} )

\* C1: whenever into_layer_tree returns, the leaves of the tree in depth-first
\* order are exactly the layers that carry no group marker, in the reverse of
\* their file order.
C1_LeavesReverseFileOrder ==
    tout.st = "ok" =>
        LeavesOf(tout.tree) = Reverse(SelectSeq(layers, NonDividerLayer))

\* A returned tree with a leaf at top level and a group holding two leaves.
C1_Witness ==
    /\ tout.st = "ok"
    /\ \E i \in 1..Len(tout.tree) : tout.tree[i].kind = "Leaf"
    /\ \E i \in 1..Len(tout.tree) :
          /\ tout.tree[i].kind = "Node"
          /\ Len(LeavesOf(tout.tree[i].children)) >= 2

\* The number of groups open after the first k layers (Start opens, End closes).
RECURSIVE OpenGroups(_, _)
OpenGroups(ls, k) ==
    IF k = 0 THEN 0
    ELSE OpenGroups(ls, k - 1)
         + (CASE Divider(ls[k]) = "Start" -> 1
              [] Divider(ls[k]) = "End" -> -1
              [] OTHER -> 0)

\* The marker sequence is balanced: no folder layer without an earlier
\* unmatched bound, and no bound left open at the end.
Balanced(ls) ==
    /\ \A k \in 1..Len(ls) : OpenGroups(ls, k) >= 0
    /\ OpenGroups(ls, Len(ls)) = 0

\* C2: tree reconstruction ends with a parse error (an Err) exactly when the
\* marker sequence is unbalanced, and with a tree when it is balanced.
C2_UnbalancedIsParseError ==
    tout.st # "run" =>
        IF Balanced(layers) THEN tout.st = "ok" ELSE tout.st = "err"

\* What the code does instead: it returns a tree exactly for the balanced
\* sequences and unwinds (expect) on every other one.
TreePanicsIffUnbalanced ==
    tout.st # "run" =>
        IF Balanced(layers) THEN tout.st = "ok" ELSE tout.st = "panic"

\* C3 (amended): for scenario S4 the tree is [G2{[L3]}, G1{[L2, L1]}]: the
\* children of G1 are in reverse file order too.
C3_S4TreeReversedChildren ==
    (layers = S4Layers /\ tout.st # "run") =>
        /\ tout.st = "ok"
        /\ tout.tree = << Node(S4Layers[7], <<Leaf(S4Layers[6])>>),
                          Node(S4Layers[4], <<Leaf(S4Layers[3]), Leaf(S4Layers[2])>>) >>

\* into_layer_tree has returned on scenario S4.
C3_Witness == layers = S4Layers /\ tout.st = "ok"

\* C3 as stated: for scenario S4 the tree is [G2{[L3]}, G1{[L1, L2]}].
C3_S4TreeAsStated ==
    (layers = S4Layers /\ tout.st # "run") =>
        /\ tout.st = "ok"
        /\ tout.tree = << Node(S4Layers[7], <<Leaf(S4Layers[6])>>),
                          Node(S4Layers[4], <<Leaf(S4Layers[2]), Leaf(S4Layers[3])>>) >>

-----------------------------------------------------------------------------
(* PackBits decompression: ChannelInfo::raw_data and ImageData::raw_data   *)

\* The layer tree at rest (the specifications that do not build it).
TreeIdle ==
    /\ layers = <<>>
    /\ idx = 0
    /\ stack = <<<<>>>>
    /\ tout = [st |-> "run", tree |-> <<>>]

\* `len as i8`: the marker byte read as a signed 8-bit value.
AsI8(b) == IF b >= 128 THEN b - 256 ELSE b

\* n copies of byte b.
Repeat(b, n) == [i \in 1..n |-> b]

\* Variants of the repeat count of the -127..=-1 arm.
RepeatCountNoPlusOne(len) == 0 - len
\* The repeat count of the arm `len @ -127..=-1`: 0..-len as usize + 1.
RepeatCount(len) == (0 - len) + 1

\* The body of the decoding loop after split_first: `match len as i8 { .. }`.
\* bytes is self.data, pos the number of bytes already consumed (so the marker
\* is bytes[pos + 1] and `follow` starts at pos + 1), out the output so far.
\* Slicing follow[..len + 1] or indexing follow[0] past the end panics; the
\* -128 arm prints and leaves `data` where it was.
RleMatch(bytes, pos, out) ==
    LET len == AsI8(bytes[pos + 1]) IN
    CASE len >= 0 ->
            IF pos + 1 + len + 1 > Len(bytes)
            THEN [st |-> "panic", pos |-> pos, out |-> out, warned |-> FALSE]
            ELSE [st |-> "ok", pos |-> pos + 1 + len + 1,
                  out |-> out \o SubSeq(bytes, pos + 2, pos + 2 + len),
                  warned |-> FALSE]
      [] len >= -127 /\ len <= -1 ->
            IF pos + 1 >= Len(bytes)
            THEN [st |-> "panic", pos |-> pos, out |-> out, warned |-> FALSE]
            ELSE [st |-> "ok", pos |-> pos + 2,
                  out |-> out \o Repeat(bytes[pos + 2], RepeatCount(len)),
                  warned |-> FALSE]
      [] OTHER -> [st |-> "ok", pos |-> pos, out |-> out, warned |-> TRUE]

\* ChannelInfo, as the parser makes it: data is Cow::Borrowed (owned is
\* FALSE) and raw_data is OnceCell::new().
ChannelInfo(id, length, w, h, c, d) ==
    [kind |-> "channel", channel_id |-> id, channel_data_length |-> length,
     channel_data_width |-> w, channel_data_height |-> h,
     compression |-> c, data |-> d, owned |-> FALSE, raw_data |-> None]

\* A channel as parse_channel_image_data leaves it: the blob is the two bytes
\* of the compression code and the data d.
ParsedChannel(w, h, c, d) == ChannelInfo(0, Len(d) + 2, w, h, c, d)

\* ImageData, as the parser makes it: data is Cow::Borrowed (owned is
\* FALSE) and raw_data is OnceCell::new().
ImageData(c, d, w, h, n) ==
    [kind |-> "image", compression |-> c, data |-> d, width |-> w, height |-> h,
     channels |-> n, owned |-> FALSE, raw_data |-> None]

\* A variant that skips one byte per scanline instead of two.
ChannelSkipOneBytePerRow(ch) == ch.channel_data_height

\* Where the RLE stream of a channel starts: &self.data[height * 2..].
ChannelSkip(ch) == ch.channel_data_height * 2

\* Where the RLE streams of the image data start:
\* &self.data[height * channels * 2..].
ImageSkip(img) == img.height * img.channels * 2

\* The loop `while !data.is_empty()` of ChannelInfo::raw_data, run to its end.
\* An iteration that changes neither `data` nor `result` repeats for ever.
RECURSIVE ChannelRleLoop(_, _, _)
ChannelRleLoop(bytes, pos, out) ==
    IF pos >= Len(bytes) THEN [st |-> "ok", value |-> out]
    ELSE LET r == RleMatch(bytes, pos, out)
         IN  CASE r.st = "panic" -> [st |-> "panic", value |-> <<>>]
               [] r.pos = pos /\ r.out = out -> [st |-> "hang", value |-> <<>>]
               [] OTHER -> ChannelRleLoop(bytes, r.pos, r.out)

\* let mut result = Vec::with_capacity(width as usize * height as usize)
ChannelAllocated(ch, m) ==
    with_capacity(ch.channel_data_width, ch.channel_data_height, m)

\* The closure of ChannelInfo::raw_data on a machine of memory m.
ChannelInfo_raw_data(ch, m) ==
    CASE ch.compression = "Raw" -> [st |-> "ok", value |-> ch.data]
      [] ch.compression = "RLE" ->
            IF ChannelAllocated(ch, m) # "ok" THEN NotAllocated(ChannelAllocated(ch, m))
            ELSE IF ChannelSkip(ch) > Len(ch.data) THEN [st |-> "panic", value |-> <<>>]
            ELSE ChannelRleLoop(ch.data, ChannelSkip(ch), <<>>)
      [] OTHER -> [st |-> "panic", value |-> <<>>]

\* ImageData::raw_data, Raw: the loop `while !data.is_empty()` with
\* data.split_at(len_one_channel), which panics when fewer bytes are left.
\* With planes of 0 bytes `data` stays as it is and every turn pushes an
\* empty slice to `list`: the list grows until the memory of the machine,
\* whatever it is, is used up and the process is ended (aborted by the
\* allocator or killed by the system), without unwinding.
RECURSIVE RawPlanes(_, _, _)
RawPlanes(bytes, n, list) ==
    IF bytes = <<>> THEN [st |-> "ok", value |-> list]
    ELSE IF n > Len(bytes) THEN [st |-> "panic", value |-> <<>>]
    ELSE IF n = 0 THEN RleAbort
    ELSE RawPlanes(SubSeq(bytes, n + 1, Len(bytes)), n,
                   Append(list, SubSeq(bytes, 1, n)))

\* ImageData::raw_data, RLE: one plane, the loop
\* `while data_one_channel.len() < width * height`; split_first().unwrap()
\* panics on an empty `data`.
RECURSIVE ImagePlaneLoop(_, _, _, _)
ImagePlaneLoop(bytes, pos, out, want) ==
    IF Len(out) >= want THEN [st |-> "ok", pos |-> pos, out |-> out]
    ELSE IF pos >= Len(bytes) THEN [st |-> "panic", pos |-> pos, out |-> out]
    ELSE LET r == RleMatch(bytes, pos, out)
         IN  CASE r.st = "panic" -> [st |-> "panic", pos |-> pos, out |-> out]
               [] r.pos = pos /\ r.out = out -> [st |-> "hang", pos |-> pos, out |-> out]
               [] OTHER -> ImagePlaneLoop(bytes, r.pos, r.out, want)

\* let mut data_one_channel = Vec::with_capacity(width as usize * height as usize)
ImageAllocated(img, m) == with_capacity(img.width, img.height, m)

\* ImageData::raw_data, RLE: `for _ in 0..self.channels`, with the
\* allocation of each plane and the assert_eq! on its length.
RECURSIVE ImageRleLoop(_, _, _, _, _)
ImageRleLoop(img, pos, list, k, m) ==
    IF k >= img.channels THEN [st |-> "ok", value |-> list]
    ELSE IF ImageAllocated(img, m) # "ok" THEN NotAllocated(ImageAllocated(img, m))
    ELSE LET r == ImagePlaneLoop(img.data, pos, <<>>, img.width * img.height)
         IN  CASE r.st # "ok" -> [st |-> r.st, value |-> <<>>]
               [] Len(r.out) # img.width * img.height -> [st |-> "panic", value |-> <<>>]
               [] OTHER -> ImageRleLoop(img, r.pos, Append(list, r.out), k + 1, m)

\* The closure of ImageData::raw_data reaches `Cow::Owned(_) => unreachable!()`:
\* the compression is Raw and self.data is owned.
RawOfOwned(img) == img.compression = "Raw" /\ img.owned

\* The closure of ImageData::raw_data on a machine of memory m.  (The list
\* of planes, Vec::with_capacity(channels) for a u16, is within AllocSure.)
ImageData_raw_data(img, m) ==
    CASE img.compression = "Raw" ->
            IF RawOfOwned(img) THEN [st |-> "panic", value |-> <<>>]
            ELSE RawPlanes(img.data, img.height * img.width, <<>>)
      [] img.compression = "RLE" ->
            IF ImageSkip(img) > Len(img.data) THEN [st |-> "panic", value |-> <<>>]
            ELSE ImageRleLoop(img, ImageSkip(img), <<>>, 0, m)
      [] OTHER -> [st |-> "panic", value |-> <<>>]

-----------------------------------------------------------------------------
(* Inputs of the decompressor specification: PackBits streams written from *)
(* runs, as an encoder writes them, and damaged copies of such streams.    *)

MaxRuns == 2
MaxDim == 2
MaxChannels == 2

\* A literal run of 1..128 bytes and a repeat run of 2..128 copies of a byte.
Lit(bs) == [kind |-> "lit", bytes |-> bs, n |-> Len(bs)]
Rep(n, b) == [kind |-> "rep", bytes |-> <<b>>, n |-> n]

\* PackBits: a literal run is written as marker n - 1 and its n bytes, a
\* repeat run of n copies as marker -(n - 1), i.e. byte 257 - n, and the byte.
EncodeRun(r) ==
    IF r.kind = "lit" THEN <<r.n - 1>> \o r.bytes ELSE <<257 - r.n>> \o r.bytes

ExpandRun(r) == IF r.kind = "lit" THEN r.bytes ELSE Repeat(r.bytes[1], r.n)

RECURSIVE EncodeRuns(_)
EncodeRuns(rs) == IF rs = <<>> THEN <<>> ELSE EncodeRun(Head(rs)) \o EncodeRuns(Tail(rs))

RECURSIVE ExpandRuns(_)
ExpandRuns(rs) == IF rs = <<>> THEN <<>> ELSE ExpandRun(Head(rs)) \o ExpandRuns(Tail(rs))

\* The runs of the bounded inputs; the data bytes 7 and 128 (which is also
\* the value of the no-op marker).
RunSet ==
    { Lit(<<7>>), Lit(<<128>>), Lit(<<7, 128>>), Lit(<<128, 7>>),
      Rep(2, 7), Rep(2, 128), Rep(3, 7) }

\* The stream of the runs rs: as written (mode "none"), with a no-op marker
\* 0x80 put in front of run at + 1 (mode "noop"), or cut one byte short
\* (mode "cut").
Payload(rs, mode, at) ==
    CASE mode = "noop" ->
            EncodeRuns(SubSeq(rs, 1, at)) \o <<128>> \o EncodeRuns(SubSeq(rs, at + 1, Len(rs)))
      [] mode = "cut" -> SubSeq(EncodeRuns(rs), 1, Len(EncodeRuns(rs)) - 1)
      [] OTHER -> EncodeRuns(rs)

\* The table of per-scanline byte counts in front of the streams: rows
\* entries of two bytes each (the decoder skips them unread).
ScanlineTable(rows, n) == Flatten([i \in 1..rows |-> <<n \div 256, n % 256>>])

Compressions == {"Raw", "RLE", "ZipWithoutPrediction", "ZipWithPrediction"}

\* Scenario S3: payload FE AA 02 01 02 03 81 42, width 6, height 1.
S3Runs == << Rep(3, 170), Lit(<<1, 2, 3>>), Rep(128, 66) >>
S3Payload == <<254, 170, 2, 1, 2, 3, 129, 66>>
S3Channel == ParsedChannel(6, 1, "RLE", ScanlineTable(1, Len(S3Payload)) \o S3Payload)

\* A channel and image data of one row of 2^31 - 1 pixels, more than
\* AllocSure, with a stream of one literal byte.
VastChannel == ParsedChannel(2147483647, 1, "RLE", ScanlineTable(1, 2) \o <<0, 7>>)
VastImage == ImageData("RLE", ScanlineTable(1, 2) \o <<0, 7>>, 2147483647, 1, 1)

RleInit ==
    /\ TreeIdle
    /\ mem \in Memories
    /\ ParseIdle
    /\ CacheIdle
    /\ DetachIdle
    /\ rpc = "start"
    /\ rpos = 0
    /\ rresult = <<>>
    /\ rlist = <<>>
    /\ rwarned = FALSE
    /\ rout = [st |-> "run", value |-> <<>>]
    /\ \/ \E n \in 0..MaxRuns : \E rs \in [1..n -> RunSet] :
          \E mode \in {"none", "noop", "cut"} : \E at \in 0..n :
          \E c \in Compressions :
            /\ mode = "cut" => (n > 0 /\ at = 0)
            /\ mode = "none" => at = 0
            /\ c # "RLE" => mode = "none"
            /\ rin = [runs |-> rs, mode |-> mode, at |-> at]
            /\ LET p == Payload(rs, mode, at) IN
               \/ \E w \in 0..MaxDim : \E h \in 0..MaxDim :
                    rch = ParsedChannel(w, h, c,
                            IF c = "RLE" THEN ScanlineTable(h, Len(p)) \o p ELSE p)
               \/ \E w \in 1..MaxDim : \E h \in 1..MaxDim : \E k \in 1..MaxChannels :
                    rch = ImageData(c,
                            IF c = "RLE" THEN ScanlineTable(h * k, Len(p)) \o p ELSE p,
                            w, h, k)
       \/ /\ rin = [runs |-> S3Runs, mode |-> "none", at |-> 0]
          /\ rch = S3Channel
       \/ /\ rin = [runs |-> <<Lit(<<7>>)>>, mode |-> "none", at |-> 0]
          /\ rch \in {VastChannel, VastImage}

RlePanic == [st |-> "panic", value |-> <<>>]

\* ChannelInfo::raw_data: the match on self.compression, up to the loop:
\* for RLE the allocation of `result`, then the slice past the table.
ChannelStart ==
    /\ rpc = "start"
    /\ rch.kind = "channel"
    /\ IF rch.compression = "RLE" /\ ChannelAllocated(rch, mem) = "ok"
          /\ ChannelSkip(rch) <= Len(rch.data)
       THEN /\ rpc' = "loop"
            /\ rpos' = ChannelSkip(rch)
            /\ rout' = rout
       ELSE /\ rpc' = "done"
            /\ rpos' = rpos
            /\ rout' = CASE rch.compression = "Raw" -> [st |-> "ok", value |-> rch.data]
                         [] rch.compression = "RLE" /\ ChannelAllocated(rch, mem) # "ok" ->
                              NotAllocated(ChannelAllocated(rch, mem))
                         [] OTHER -> RlePanic
    /\ UNCHANGED <<rch, rresult, rlist, rwarned, rin>>
    /\ UNCHANGED <<treeVars, parseVars, cacheVars, detachVars, envVars>>

\* ChannelInfo::raw_data: one iteration of `while !data.is_empty()`.
ChannelIter ==
    /\ rpc = "loop"
    /\ rch.kind = "channel"
    /\ rpos < Len(rch.data)
    /\ LET r == RleMatch(rch.data, rpos, rresult) IN
        /\ rpos' = r.pos
        /\ rresult' = r.out
        /\ rwarned' = (rwarned \/ r.warned)
        /\ rpc' = IF r.st = "ok" THEN "loop" ELSE "done"
        /\ rout' = IF r.st = "ok" THEN rout ELSE RlePanic
    /\ UNCHANGED <<rch, rlist, rin>>
    /\ UNCHANGED <<treeVars, parseVars, cacheVars, detachVars, envVars>>

\* ChannelInfo::raw_data: the loop ends, Cow::Owned(result) is the plane.
ChannelReturn ==
    /\ rpc = "loop"
    /\ rch.kind = "channel"
    /\ rpos >= Len(rch.data)
    /\ rpc' = "done"
    /\ rout' = [st |-> "ok", value |-> rresult]
    /\ UNCHANGED <<rch, rpos, rresult, rlist, rwarned, rin>>
    /\ UNCHANGED <<treeVars, parseVars, cacheVars, detachVars, envVars>>

\* ImageData::raw_data: the match on self.compression, up to the RLE loops:
\* for RLE the slice past the table, then the allocation of the first plane
\* when there is one (the later planes ask for as much and are served as
\* the first one was).
ImageStart ==
    /\ rpc = "start"
    /\ rch.kind = "image"
    /\ IF rch.compression = "RLE" /\ ImageSkip(rch) <= Len(rch.data)
          /\ (rch.channels = 0 \/ ImageAllocated(rch, mem) = "ok")
       THEN /\ rpc' = "loop"
            /\ rpos' = ImageSkip(rch)
            /\ rout' = rout
       ELSE /\ rpc' = "done"
            /\ rpos' = rpos
            /\ rout' = CASE rch.compression = "Raw" /\ ~RawOfOwned(rch) ->
                              RawPlanes(rch.data, rch.height * rch.width, <<>>)
                         [] rch.compression = "RLE" /\ ImageSkip(rch) <= Len(rch.data) ->
                              NotAllocated(ImageAllocated(rch, mem))
                         [] OTHER -> RlePanic
    /\ UNCHANGED <<rch, rresult, rlist, rwarned, rin>>
    /\ UNCHANGED <<treeVars, parseVars, cacheVars, detachVars, envVars>>

\* ImageData::raw_data: one iteration of
\* `while data_one_channel.len() < width * height`.
ImageIter ==
    /\ rpc = "loop"
    /\ rch.kind = "image"
    /\ Len(rlist) < rch.channels
    /\ Len(rresult) < rch.width * rch.height
    /\ IF rpos >= Len(rch.data)
       THEN /\ rpc' = "done"
            /\ rout' = RlePanic
            /\ UNCHANGED <<rpos, rresult, rwarned>>
       ELSE LET r == RleMatch(rch.data, rpos, rresult) IN
            /\ rpos' = r.pos
            /\ rresult' = r.out
            /\ rwarned' = (rwarned \/ r.warned)
            /\ rpc' = IF r.st = "ok" THEN "loop" ELSE "done"
            /\ rout' = IF r.st = "ok" THEN rout ELSE RlePanic
    /\ UNCHANGED <<rch, rlist, rin>>
    /\ UNCHANGED <<treeVars, parseVars, cacheVars, detachVars, envVars>>

\* ImageData::raw_data: a plane is complete: assert_eq! on its length, push.
ImagePlaneDone ==
    /\ rpc = "loop"
    /\ rch.kind = "image"
    /\ Len(rlist) < rch.channels
    /\ Len(rresult) >= rch.width * rch.height
    /\ IF Len(rresult) = rch.width * rch.height
       THEN /\ rlist' = Append(rlist, rresult)
            /\ rresult' = <<>>
            /\ UNCHANGED <<rpc, rout>>
       ELSE /\ rpc' = "done"
            /\ rout' = RlePanic
            /\ UNCHANGED <<rlist, rresult>>
    /\ UNCHANGED <<rch, rpos, rwarned, rin>>
    /\ UNCHANGED <<treeVars, parseVars, cacheVars, detachVars, envVars>>

\* ImageData::raw_data: all planes are built, `list` is the value.
ImageReturn ==
    /\ rpc = "loop"
    /\ rch.kind = "image"
    /\ Len(rlist) >= rch.channels
    /\ rpc' = "done"
    /\ rout' = [st |-> "ok", value |-> rlist]
    /\ UNCHANGED <<rch, rpos, rresult, rlist, rwarned, rin>>
    /\ UNCHANGED <<treeVars, parseVars, cacheVars, detachVars, envVars>>

RleNext ==
    \/ ChannelStart
    \/ ChannelIter
    \/ ChannelReturn
    \/ ImageStart
    \/ ImageIter
    \/ ImagePlaneDone
    \/ ImageReturn

SpecRle == RleInit /\ [][RleNext]_vars

\* The loops run one iteration per step end as the closures run at once do.
RleStepsAgree ==
    rpc = "done" =>
        rout = (IF rch.kind = "channel" THEN ChannelInfo_raw_data(rch, mem)
                ELSE ImageData_raw_data(rch, mem))

\* The plane of one row of 2^31 - 1 pixels: a machine of short memory
\* aborts in the allocation; one of ample memory decodes the channel's one
\* byte, and panics on the image data, whose loop goes on for the bytes the
\* plane lacks (split_first().unwrap() on the empty rest).
VastPlaneByMemory ==
    (rpc = "done" /\ rch \in {VastChannel, VastImage}) =>
        rout = CASE mem = "short" -> RleAbort
                 [] rch = VastChannel -> [st |-> "ok", value |-> <<7>>]
                 [] OTHER -> RlePanic

\* The process is aborted by nothing but a plane beyond AllocSure on a
\* machine of short memory.
AbortOnlyBeyondAllocSure ==
    rout.st = "abort" => (mem = "short" /\ rch \in {VastChannel, VastImage})

-----------------------------------------------------------------------------
(* Claims about the decompressor (checked under SpecRle)                   *)

\* C4: for an RLE channel whose data is a scanline table of height * 2 bytes
\* followed by a well-formed PackBits stream without no-op markers, raw_data
\* returns the concatenation of the expansions of the runs in stream order
\* (a literal marker L copies L + 1 bytes, a repeat marker L emits the next
\* byte -L + 1 times).  For the image data, whose table has
\* height * channels * 2 bytes, the planes returned are, put end to end, the
\* expansion of the runs read.  The channel's call returns whenever the
\* machine has the width * height bytes of the plane; on a machine that has
\* not, the process is aborted and there is no output.
C4_RleExpandsRuns ==
    (rpc = "done" /\ rch.compression = "RLE" /\ rin.mode = "none") =>
        IF rch.kind = "channel"
        THEN rout = (IF ChannelAllocated(rch, mem) = "ok"
                     THEN [st |-> "ok", value |-> ExpandRuns(rin.runs)]
                     ELSE RleAbort)
        ELSE rout.st = "ok" =>
                \E j \in 0..Len(rin.runs) :
                    Flatten(rout.value) = ExpandRuns(SubSeq(rin.runs, 1, j))

\* A channel with a scanline table, a repeat run and a literal run, decoded.
C4_Witness ==
    /\ rpc = "done"
    /\ rch.kind = "channel"
    /\ rch.compression = "RLE"
    /\ rch.channel_data_height >= 1
    /\ rin.mode = "none"
    /\ \E i, j \in 1..Len(rin.runs) :
          rin.runs[i].kind = "lit" /\ rin.runs[j].kind = "rep"
    /\ rout.st = "ok"

\* C5: an RLE plane that raw_data returns has exactly width * height bytes,
\* for a layer channel and for every channel of the image data.
C5_RlePlaneIsWidthTimesHeight ==
    (rpc = "done" /\ rch.compression = "RLE" /\ rout.st = "ok") =>
        IF rch.kind = "channel"
        THEN Len(rout.value) = rch.channel_data_width * rch.channel_data_height
        ELSE \A i \in 1..Len(rout.value) :
                Len(rout.value[i]) = rch.width * rch.height

\* The part of C5 the code keeps: the planes of the image data that are
\* returned have width * height bytes each (assert_eq!).
ImagePlanesAreWidthTimesHeight ==
    (rpc = "done" /\ rch.kind = "image" /\ rch.compression = "RLE" /\ rout.st = "ok") =>
        \A i \in 1..Len(rout.value) : Len(rout.value[i]) = rch.width * rch.height

\* The decoder is about to read a no-op marker (0x80, -128).
AtNoOpMarker ==
    /\ rpc = "loop"
    /\ rpos < Len(rch.data)
    /\ rch.data[rpos + 1] = 128
    /\ rch.kind = "image" =>
          (Len(rlist) < rch.channels /\ Len(rresult) < rch.width * rch.height)

\* C6: a no-op marker is skipped: the iteration that reads it moves the
\* cursor past it and decoding goes on with the next byte.
C6_NoOpMarkerIsSkipped ==
    [][AtNoOpMarker => (rpos' = rpos + 1 /\ rpc' = "loop")]_vars

\* What the code does instead: once the warning for a no-op marker is out,
\* the decoder is still at that marker, in every later state.
NoOpMarkerStalls ==
    rwarned => (AtNoOpMarker /\ rout.st = "run")

\* C7 (amended): scenario S3 decodes to AA AA AA 01 02 03 and 128 bytes 42.
C7_S3Output ==
    (rch = S3Channel /\ rpc = "done") =>
        rout = [st |-> "ok",
                value |-> <<170, 170, 170, 1, 2, 3>> \o Repeat(66, 128)]

\* Scenario S3 has been decoded.
C7_Witness == rch = S3Channel /\ rpc = "done" /\ rout.st = "ok"

\* C7 as stated: scenario S3 decodes to AA AA AA 01 02 03 42 42.
C7_S3OutputAsStated ==
    (rch = S3Channel /\ rpc = "done") =>
        rout = [st |-> "ok", value |-> <<170, 170, 170, 1, 2, 3, 66, 66>>]

-----------------------------------------------------------------------------
(* Byte-level parsing.  A parser state is [st, rest, vals]: st is "ok",     *)
(* "err" (nom's Err, which `?` returns from the function) or "panic" (a    *)
(* slice past the end, an unwrap, an assert); rest is the input that is    *)
(* left and vals the values read so far, in order.  Each line              *)
(*     let (input, x) = parser(input)?;                                    *)
(* is one step from the state before it to the state with x appended; a    *)
(* step on a state that is not "ok" leaves it alone.                       *)

Start(input) == [st |-> "ok", rest |-> input, vals |-> <<>>]
PErr == [st |-> "err", rest |-> <<>>, vals |-> <<>>]
PPanic == [st |-> "panic", rest |-> <<>>, vals |-> <<>>]
Fail(q) == [st |-> q.st, rest |-> <<>>, vals |-> <<>>]

\* &s[..n] and &s[n..], for n <= s.len().
Take(s, n) == SubSeq(s, 1, n)
Drop(s, n) == SubSeq(s, n + 1, Len(s))

\* The value read last.
Last(p) == p.vals[Len(p.vals)]

\* n bytes are consumed and v is the value read.
Push(p, n, v) == [st |-> "ok", rest |-> Drop(p.rest, n), vals |-> Append(p.vals, v)]

\* The big-endian value of 1, 2 or 4 bytes.
BigEndian(bs) ==
    CASE Len(bs) = 1 -> bs[1]
      [] Len(bs) = 2 -> bs[1] * 256 + bs[2]
      [] Len(bs) = 4 -> ((bs[1] * 256 + bs[2]) * 256 + bs[3]) * 256 + bs[4]

\* be_u8 / be_u16 / be_u32: Err when fewer bytes are left.
be_uint(p, n) ==
    IF p.st # "ok" THEN p
    ELSE IF Len(p.rest) < n THEN PErr
    ELSE Push(p, n, BigEndian(Take(p.rest, n)))

be_u8(p) == be_uint(p, 1)
be_u16(p) == be_uint(p, 2)
be_u32(p) == be_uint(p, 4)

\* be_i16 / be_i32: two's complement.
be_i16(p) ==
    IF p.st # "ok" THEN p
    ELSE IF Len(p.rest) < 2 THEN PErr
    ELSE Push(p, 2, IF p.rest[1] >= 128
                    THEN BigEndian(Take(p.rest, 2)) - 65536
                    ELSE BigEndian(Take(p.rest, 2)))

be_i32(p) ==
    IF p.st # "ok" THEN p
    ELSE IF Len(p.rest) < 4 THEN PErr
    ELSE Push(p, 4, IF p.rest[1] >= 128
                    THEN BigEndian(<<p.rest[1] - 128, p.rest[2], p.rest[3], p.rest[4]>>)
                             - 2147483647 - 1
                    ELSE BigEndian(Take(p.rest, 4)))

\* tag(t)(input)
tag(t, p) ==
    IF p.st # "ok" THEN p
    ELSE IF Len(p.rest) >= Len(t) /\ Take(p.rest, Len(t)) = t THEN Push(p, Len(t), t)
    ELSE PErr

\* alt((tag(t1), tag(t2)))(input)
alt_tag(t1, t2, p) ==
    IF p.st # "ok" THEN p
    ELSE IF tag(t1, p).st = "ok" THEN tag(t1, p)
    ELSE tag(t2, p)

\* take(n)(input)
take(n, p) ==
    IF p.st # "ok" THEN p
    ELSE IF n <= Len(p.rest) THEN Push(p, n, Take(p.rest, n))
    ELSE PErr

\* let (input, len) = ..; let (input, data) = take(len)(input)?;
\* take, by the length read last.
take_len(p) == IF p.st # "ok" THEN p ELSE take(Last(p), p)

\* let (input, len) = ..; &input[..len] and &input[len..]: like take_len,
\* but a length beyond the input panics.
slice_len(p) ==
    IF p.st # "ok" THEN p
    ELSE IF Last(p) > Len(p.rest) THEN PPanic
    ELSE Push(p, Last(p), Take(p.rest, Last(p)))

\* A verify that takes every value (variant).
verify_any(p, S) == p

\* verify(parser, |v| S.contains(v)), on the state the parser left.
verify(p, S) == IF p.st # "ok" \/ Last(p) \in S THEN p ELSE PErr

\* map_res(parser, F), on the state the parser left, with v the value of F
\* on what the parser read: "Err" for an Err.
MapRes(p, v) ==
    IF v = "Err" THEN PErr ELSE [p EXCEPT !.vals = [@ EXCEPT ![Len(@)] = v]]

\* A function called with the input that is left: its own values start empty.
Sub(p) == IF p.st # "ok" THEN p ELSE Start(p.rest)

\* A function called with the bytes read last (a frame) as its input.
Framed(p) == IF p.st # "ok" THEN p ELSE Start(Last(p))

\* The value v a function builds from what it read, as its last value.
Value(q, v) == IF q.st # "ok" THEN q ELSE [q EXCEPT !.vals = Append(@, v)]

\* Ok((follow, value)) of a function called in state p, that ended in
\* state q with the value as its last: the caller goes on after follow with
\* the value appended.
RetFramed(p, follow, q) ==
    IF q.st # "ok" THEN Fail(q)
    ELSE [st |-> "ok", rest |-> follow.rest, vals |-> Append(p.vals, Last(q))]

\* Ok((input, value)): the caller goes on where the function stopped.
Ret(p, q) ==
    IF q.st # "ok" THEN Fail(q)
    ELSE [st |-> "ok", rest |-> q.rest, vals |-> Append(p.vals, Last(q))]

\* let mut v = Vec::new(); the list is the value read last.
NewVec(p) == IF p.st # "ok" THEN p ELSE [p EXCEPT !.vals = Append(@, <<>>)]

\* v.push(x), for x the value read last and v the one before it.
PushVec(p) ==
    IF p.st # "ok" THEN p
    ELSE [p EXCEPT !.vals = Append(SubSeq(@, 1, Len(@) - 2),
                                   Append(@[Len(@) - 1], @[Len(@)]))]

\* ASCII
Sig8BPS == <<56, 66, 80, 83>>
Sig8BIM == <<56, 66, 73, 77>>
Sig8B64 == <<56, 66, 54, 52>>
KeyLsct == <<108, 115, 99, 116>>

-----------------------------------------------------------------------------
(* header.rs                                                               *)

\* ColorMode::from_u16
ColorMode_from_u16(v) ==
    CASE v = 0 -> "Bitmap"
      [] v = 1 -> "Grayscale"
      [] v = 2 -> "Indexed"
      [] v = 3 -> "RGB"
      [] v = 4 -> "CMYK"
      [] v = 7 -> "Multichannel"
      [] v = 8 -> "Duotone"
      [] v = 9 -> "Lab"
      [] OTHER -> "Err"

\* map_res(parser, ColorMode::from_u16), on the state the parser left.
map_res_ColorMode_from_u16(p) ==
    IF p.st # "ok" THEN p ELSE MapRes(p, ColorMode_from_u16(Last(p)))

PsdHeader(channels, height, width, depth, color_mode) ==
    [version |-> 1, channels |-> channels, height |-> height, width |-> width,
     depth |-> depth, color_mode |-> color_mode]

\* PsdHeader { version: 1, channels, height, width, depth, color_mode }
PsdHeaderOf(q) ==
    Value(q, PsdHeader(q.vals[4], q.vals[5], q.vals[6], q.vals[7], q.vals[8]))

parse_header(p) ==
    LET magic == tag(Sig8BPS, Sub(p))
        version == verify(be_u16(magic), {1})
        reserved == tag(<<0, 0, 0, 0, 0, 0>>, version)
        channels == verify(be_u16(reserved), 1..56)
        height == verify(be_u32(channels), 1..30000)
        width == verify(be_u32(height), 1..30000)
        depth == verify(be_u16(width), {1, 8, 16, 32})
        color_mode == map_res_ColorMode_from_u16(be_u16(depth))
    IN  Ret(p, PsdHeaderOf(color_mode))

-----------------------------------------------------------------------------
(* color_mode.rs                                                           *)

\* Every length for every colour mode (variant).
ColorModeLengthsAny(color_mode) == Nat

\* The lengths parse_color_mode accepts for a colour mode.
ColorModeLengths(color_mode) ==
    CASE color_mode = "Indexed" -> {768}
      [] color_mode = "Duotone" -> Nat
      [] OTHER -> {0}

\* parse_color_mode(input, &header), the header being the value read last.
parse_color_mode(p) ==
    LET len == verify(be_u32(Sub(p)), ColorModeLengths(Last(p).color_mode))
        data == take_len(len)
    IN  Ret(p, data)

-----------------------------------------------------------------------------
(* image_resource.rs                                                       *)

ImageResourceBlock(resource_id, name, resource_data) ==
    [resource_id |-> resource_id, name |-> name, resource_data |-> resource_data]

\* a & b and a | b, on the binary digits of the naturals a and b.
RECURSIVE BitAnd(_, _)
BitAnd(a, b) ==
    IF a = 0 \/ b = 0 THEN 0
    ELSE (a % 2) * (b % 2) + 2 * BitAnd(a \div 2, b \div 2)

RECURSIVE BitOr(_, _)
BitOr(a, b) ==
    IF a = 0 THEN b
    ELSE IF b = 0 THEN a
    ELSE (IF a % 2 = 1 \/ b % 2 = 1 THEN 1 ELSE 0) + 2 * BitOr(a \div 2, b \div 2)

\* name_len as usize | 1
OrOne(n) == BitOr(n, 1)

\* A u32 as its two halves of 16 bits, and the number the halves stand for.
Halves(n) == [hi |-> n \div 65536, lo |-> n % 65536]
HalvesValue(x) == x.hi * 65536 + x.lo

\* data_len + 1 in u32.  At data_len = 0xFFFFFFFF the sum overflows: a build
\* with overflow checks ("debug") panics, one without ("release") wraps to 0.
AddOneU32(x, build) ==
    IF x.lo < 65535 THEN [st |-> "ok", val |-> [hi |-> x.hi, lo |-> x.lo + 1]]
    ELSE IF x.hi < 65535 THEN [st |-> "ok", val |-> [hi |-> x.hi + 1, lo |-> 0]]
    ELSE IF build = "debug" THEN [st |-> "panic", val |-> [hi |-> 0, lo |-> 0]]
    ELSE [st |-> "ok", val |-> [hi |-> 0, lo |-> 0]]

\* x & !1 in u32: !1 is 0xFFFFFFFE.
AndNotOneU32(x) == [hi |-> BitAnd(x.hi, 65535), lo |-> BitAnd(x.lo, 65534)]

\* (data_len + 1) & !1 in u32, on the halves of data_len: [st, val].
RoundUpEvenU32(x, build) ==
    IF AddOneU32(x, build).st # "ok" THEN AddOneU32(x, build)
    ELSE [st |-> "ok", val |-> AndNotOneU32(AddOneU32(x, build).val)]

\* ((data_len + 1) & !1) as usize: [st, val].
RoundUpEven(n, build) ==
    IF RoundUpEvenU32(Halves(n), build).st # "ok" THEN [st |-> "panic", val |-> 0]
    ELSE [st |-> "ok", val |-> HalvesValue(RoundUpEvenU32(Halves(n), build).val)]

\* let name = &input[..name_len]; let input = &input[name_len | 1..];
NameSlices(p) ==
    IF p.st # "ok" THEN p
    ELSE IF OrOne(Last(p)) > Len(p.rest) THEN PPanic
    ELSE Push(p, OrOne(Last(p)), Take(p.rest, Last(p)))

\* &input[adv..] and &input[..data_len], for adv the [st, val] of
\* (data_len + 1) & !1: either slice panics when it is out of range.
DataSliced(p, adv) ==
    IF adv.st # "ok" THEN PPanic
    ELSE IF adv.val > Len(p.rest) \/ Last(p) > Len(p.rest) THEN PPanic
    ELSE Push(p, adv.val, Take(p.rest, Last(p)))

\* &input[((data_len + 1) & !1) as usize..] and &input[..data_len as usize]
DataSlices(p, build) ==
    IF p.st # "ok" THEN p ELSE DataSliced(p, RoundUpEven(Last(p), build))

\* ImageResourceBlock { resource_id, name, resource_data }
ImageResourceBlockOf(q) ==
    Value(q, ImageResourceBlock(q.vals[2], q.vals[4], q.vals[6]))

parse_image_resource_block(p, build) ==
    LET sig == tag(Sig8BIM, Sub(p))
        resource_id == be_u16(sig)
        name_len == be_u8(resource_id)
        name == NameSlices(name_len)
        data_len == be_u32(name)
        resource_data == DataSlices(data_len, build)
    IN  Ret(p, ImageResourceBlockOf(resource_data))

\* while !blocks_input.is_empty() { parse_image_resource_block; resources.push }
RECURSIVE ImageResourceBlocksLoop(_, _)
ImageResourceBlocksLoop(p, build) ==
    IF p.st # "ok" \/ p.rest = <<>> THEN p
    ELSE ImageResourceBlocksLoop(PushVec(parse_image_resource_block(p, build)), build)

parse_image_resources(p, build) ==
    LET len == be_u32(Sub(p))
        blocks_input == slice_len(len)
    IN  RetFramed(p, blocks_input,
                  ImageResourceBlocksLoop(NewVec(Framed(blocks_input)), build))

-----------------------------------------------------------------------------
(* image_data.rs                                                           *)

\* ImageCompression::from_u16
ImageCompression_from_u16(v) ==
    CASE v = 0 -> "Raw"
      [] v = 1 -> "RLE"
      [] v = 2 -> "ZipWithoutPrediction"
      [] v = 3 -> "ZipWithPrediction"
      [] OTHER -> "Err"

\* map_res(parser, ImageCompression::from_u16), on the state the parser left.
map_res_ImageCompression_from_u16(p) ==
    IF p.st # "ok" THEN p ELSE MapRes(p, ImageCompression_from_u16(Last(p)))

\* parse_image_data(input, &header), the header being the first value read:
\* the data is all the input that is left.
parse_image_data(p) ==
    LET compression == map_res_ImageCompression_from_u16(be_u16(Sub(p)))
    IN  IF compression.st # "ok" THEN Fail(compression)
        ELSE [st |-> "ok", rest |-> <<>>,
              vals |-> Append(p.vals,
                              ImageData(Last(compression), compression.rest,
                                        p.vals[1].width, p.vals[1].height,
                                        p.vals[1].channels))]

-----------------------------------------------------------------------------
(* layer_info.rs: the layer records                                        *)

\* BlendMode::try_from
BlendMode_try_from(key) ==
    CASE key = <<112, 97, 115, 115>> -> "Passthrough"
      [] key = <<110, 111, 114, 109>> -> "Normal"
      [] key = <<100, 105, 115, 115>> -> "Dissolve"
      [] key = <<100, 97, 114, 107>> -> "Darken"
      [] key = <<109, 117, 108, 32>> -> "Multiply"
      [] key = <<105, 100, 105, 118>> -> "Colorburn"
      [] key = <<108, 98, 114, 110>> -> "Linearburn"
      [] key = <<100, 107, 67, 108>> -> "Darkercolor"
      [] key = <<108, 105, 116, 101>> -> "Lighten"
      [] key = <<115, 99, 114, 110>> -> "Screen"
      [] key = <<100, 105, 118, 32>> -> "Colordodge"
      [] key = <<108, 100, 100, 103>> -> "Lineardodge"
      [] key = <<108, 103, 67, 108>> -> "Lightercolor"
      [] key = <<111, 118, 101, 114>> -> "Overlay"
      [] key = <<115, 76, 105, 116>> -> "Softlight"
      [] key = <<104, 76, 105, 116>> -> "Hardlight"
      [] key = <<118, 76, 105, 116>> -> "Vividlight"
      [] key = <<108, 76, 105, 116>> -> "Linearlight"
      [] key = <<112, 76, 105, 116>> -> "Pinlight"
      [] key = <<104, 77, 105, 120>> -> "Hardmix"
      [] key = <<100, 105, 102, 102>> -> "Difference"
      [] key = <<115, 109, 117, 100>> -> "Exclusion"
      [] key = <<102, 115, 117, 98>> -> "Subtract"
      [] key = <<102, 100, 105, 118>> -> "Divide"
      [] key = <<104, 117, 101, 32>> -> "Hue"
      [] key = <<115, 97, 116, 32>> -> "Saturation"
      [] key = <<99, 111, 108, 114>> -> "Color"
      [] key = <<108, 117, 109, 32>> -> "Luminosity"
      [] OTHER -> "Err"

\* map_res(parser, BlendMode::try::from), on the state the parser left.
map_res_BlendMode_try_from(p) ==
    IF p.st # "ok" THEN p ELSE MapRes(p, BlendMode_try_from(Last(p)))

\* Clipping::try_from
Clipping_try_from(v) ==
    CASE v = 0 -> "Base"
      [] v = 1 -> "NonBase"
      [] OTHER -> "Err"

\* map_res(parser, Clipping::try::from), on the state the parser left.
map_res_Clipping_try_from(p) ==
    IF p.st # "ok" THEN p ELSE MapRes(p, Clipping_try_from(Last(p)))

\* LayerRecordFlags::from_bits / LayerMaskFlags::from_bits: bits 0..4 only.
FlagsFromBitsOk(v) == v < 32

\* map_res(parser, |flags| LayerRecordFlags::from_bits(flags).ok_or(flags)), and
\* the same for LayerMaskFlags, on the state the parser left: Err for a bit
\* that is no flag, the flags are the bits otherwise.
map_res_from_bits(p) ==
    IF p.st # "ok" \/ FlagsFromBitsOk(Last(p)) THEN p ELSE PErr

\* SectionDividerType::from_u32
SectionDividerType_from_u32(v) ==
    CASE v = 0 -> "AnyOtherType"
      [] v = 1 -> "OpenFolder"
      [] v = 2 -> "ClosedFolder"
      [] v = 3 -> "BoundingSectionDivider"
      [] OTHER -> "Err"

\* map_res(parser, SectionDividerType::from_u32), on the state the parser left.
map_res_SectionDividerType_from_u32(p) ==
    IF p.st # "ok" THEN p ELSE MapRes(p, SectionDividerType_from_u32(Last(p)))

\* SectionDividerSubType::from_u32
SectionDividerSubType_from_u32(v) ==
    CASE v = 0 -> "Normal"
      [] v = 1 -> "SceneGroup"
      [] OTHER -> "Err"

\* map_res(parser, SectionDividerSubType::from_u32), on the state the parser left.
map_res_SectionDividerSubType_from_u32(p) ==
    IF p.st # "ok" THEN p ELSE MapRes(p, SectionDividerSubType_from_u32(Last(p)))

\* AdditionalLayerInformation, with everything the parser stores.
SectionDividerInfo(t, key, sub_type) ==
    [kind |-> "SectionDivider", section_divider_type |-> t, key |-> key,
     sub_type |-> sub_type]

UnknownInfo(key, data) ==
    [kind |-> "Unknown", section_divider_type |-> "-", key |-> key, data |-> data]

\* parse_additional_layer_info(key, data), on the state that read the
\* signature, the key, the length and the data of one block: the value
\* appended is the information, and assert_eq!(follow.len(), 0) panics when
\* the lsct parser left bytes of the data.
parse_additional_layer_info(p) ==
    IF p.st # "ok" THEN p ELSE
    IF p.vals[2] # KeyLsct
    THEN [p EXCEPT !.vals = Append(@, UnknownInfo(p.vals[2], Last(p)))] ELSE
    LET section_type == map_res_SectionDividerType_from_u32(be_u32(Framed(p)))
        blend_mode == map_res_BlendMode_try_from(take(4, tag(Sig8BIM, section_type)))
        sub_type == map_res_SectionDividerSubType_from_u32(be_u32(blend_mode))
    IN  IF section_type.st # "ok" THEN Fail(section_type) ELSE
        IF section_type.rest = <<>>
        THEN [p EXCEPT !.vals =
                 Append(@, SectionDividerInfo(Last(section_type), None, None))] ELSE
        IF blend_mode.st # "ok" THEN Fail(blend_mode) ELSE
        IF blend_mode.rest = <<>>
        THEN [p EXCEPT !.vals =
                 Append(@, SectionDividerInfo(Last(section_type),
                                              Some(Last(blend_mode)), None))] ELSE
        IF sub_type.st # "ok" THEN Fail(sub_type) ELSE
        IF sub_type.rest # <<>> THEN PPanic ELSE
        [p EXCEPT !.vals =
            Append(@, SectionDividerInfo(Last(section_type), Some(sub_type.vals[3]),
                                         Some(Last(sub_type))))]

\* LayerMaskData { .. optional: None }
LayerMaskDataOf(q) ==
    [layer_mask_top |-> q.vals[1], layer_mask_left |-> q.vals[2],
     layer_mask_bottom |-> q.vals[3], layer_mask_right |-> q.vals[4],
     default_color |-> q.vals[5], flags |-> q.vals[6], optional |-> None]

\* LayerMaskData { .. optional: Some(LayerMaskOptionalData { .. }) }
LayerMaskDataWithOptionalOf(q) ==
    [LayerMaskDataOf(q) EXCEPT !.optional =
        Some([real_flags |-> q.vals[7], real_user_mask_background |-> q.vals[8],
              layer_mask_top |-> q.vals[9], layer_mask_left |-> q.vals[10],
              layer_mask_bottom |-> q.vals[11], layer_mask_right |-> q.vals[12]])]

\* parse_layer_mask_data(layer_mask_data), the bytes being the value read
\* last; the caller drops what the function leaves.
parse_layer_mask_data(p) ==
    IF p.st # "ok" THEN p ELSE
    IF Last(p) = <<>> THEN [p EXCEPT !.vals = Append(@, None)] ELSE
    LET layer_mask_top == be_i32(Framed(p))
        layer_mask_left == be_i32(layer_mask_top)
        layer_mask_bottom == be_i32(layer_mask_left)
        layer_mask_right == be_i32(layer_mask_bottom)
        default_color == be_u8(layer_mask_right)
        flags == map_res_from_bits(be_u8(default_color))
        real_flags == map_res_from_bits(be_u8(flags))
        real_user_mask_background == be_u8(real_flags)
        mask_top == be_i32(real_user_mask_background)
        mask_left == be_i32(mask_top)
        mask_bottom == be_i32(mask_left)
        mask_right == be_i32(mask_bottom)
    IN  IF flags.st # "ok" THEN Fail(flags) ELSE
        IF Len(flags.rest) = 2
        THEN [p EXCEPT !.vals = Append(@, Some(LayerMaskDataOf(flags)))] ELSE
        IF mask_right.st # "ok" THEN Fail(mask_right) ELSE
        [p EXCEPT !.vals = Append(@, Some(LayerMaskDataWithOptionalOf(mask_right)))]

\* (a - b) as u32 for i32 a, b.  The subtraction overflows i32 when the
\* difference is out of range: a build with overflow checks ("debug") panics,
\* one without ("release") wraps.  fits is the test that the difference is
\* an i32, written with sums that are i32 themselves; a difference below
\* -2^31 wraps to itself plus 2^32.
SubAsU32(a, b, build) ==
    LET fits == IF b >= 0 THEN a >= (-2147483647 - 1) + b ELSE a <= 2147483647 + b
    IN  IF ~fits /\ build = "debug"
        THEN [st |-> "panic", val |-> 0]
        ELSE [st |-> "ok",
              val |-> CASE fits /\ a >= b -> a - b
                        [] ~fits /\ a < 0 -> ((a + 2147483647 + 1) - b) + 2147483647 + 1
                        [] OTHER -> (a - b) % (65536 * 65536)]

\* for _ in 0..channels { be_i16, be_u32, channel_info.push(ChannelInfo {..}) }
\* on the state that read the rectangle and channels, with channel_info the
\* value read last; n iterations are left.
RECURSIVE ChannelTableLoop(_, _, _)
ChannelTableLoop(p, n, build) ==
    IF p.st # "ok" \/ n <= 0 THEN p ELSE
    LET channel_id == be_i16(p)
        channel_data_length == be_u32(channel_id)
        w == SubAsU32(p.vals[4], p.vals[2], build)
        h == SubAsU32(p.vals[3], p.vals[1], build)
    IN  IF channel_data_length.st # "ok" THEN Fail(channel_data_length) ELSE
        IF w.st # "ok" \/ h.st # "ok" THEN PPanic ELSE
        ChannelTableLoop(
            [st |-> "ok", rest |-> channel_data_length.rest,
             vals |-> [p.vals EXCEPT ![Len(p.vals)] =
                          Append(@, ChannelInfo(Last(channel_id), Last(channel_data_length),
                                                w.val, h.val, "Raw", <<>>))]],
            n - 1, build)

\* let mut channel_info = Vec::new(); for _ in 0..channels { .. }
ChannelTable(p, build) ==
    IF p.st # "ok" THEN p ELSE ChannelTableLoop(NewVec(p), Last(p), build)

\* The padding of the name alone to a multiple of 4 (variant).
LayerNamePadOfName(n) == (4 - (n % 4)) % 4

\* 3 - (layer_name_len as usize & 3)
LayerNamePad(n) == 3 - (n % 4)

\* let mut input = &input[3 - (layer_name_len as usize & 3)..];
\* on the state that read layer_name_len and layer_name last.
SkipLayerNamePad(p) ==
    IF p.st # "ok" THEN p
    ELSE IF LayerNamePad(p.vals[Len(p.vals) - 1]) > Len(p.rest) THEN PPanic
    ELSE [p EXCEPT !.rest = Drop(@, LayerNamePad(p.vals[Len(p.vals) - 1]))]

\* One pass of the while loop: signature, key, length, data, the parser,
\* the assert and the push; input = i.
AdditionalInfoStep(p) ==
    LET sig == alt_tag(Sig8BIM, Sig8B64, Sub(p))
        key == take(4, sig)
        len == be_u32(key)
        data == take_len(len)
    IN  PushVec(Ret(p, parse_additional_layer_info(data)))

\* while !input.is_empty() { .. }
RECURSIVE AdditionalInfoLoop(_)
AdditionalInfoLoop(p) ==
    IF p.st # "ok" \/ p.rest = <<>> THEN p
    ELSE AdditionalInfoLoop(AdditionalInfoStep(p))

\* The part of parse_layer_record inside the extra-data length, the extra
\* data being the value read last: the layer mask data, the blending
\* ranges, the name and the additional layer information.
LayerRecordExtraOf(q) ==
    Value(q, [layer_mask_data |-> q.vals[3], layer_blending_ranges_data |-> q.vals[5],
              layer_name |-> q.vals[7], additional_layer_info |-> q.vals[8]])

\* The blending ranges, the name and the additional layer information, on
\* the state that read the layer mask data.
LayerNameAndInfo(p) ==
    LET layer_blending_ranges_len == be_u32(p)
        layer_blending_ranges_data == take_len(layer_blending_ranges_len)
        layer_name_len == be_u8(layer_blending_ranges_data)
        layer_name == take_len(layer_name_len)
    IN  AdditionalInfoLoop(NewVec(SkipLayerNamePad(layer_name)))

parse_layer_record_extra(p) ==
    LET layer_mask_data_len == be_u32(Framed(p))
        layer_mask_data == take_len(layer_mask_data_len)
    IN  RetFramed(p, p, LayerRecordExtraOf(
                            LayerNameAndInfo(parse_layer_mask_data(layer_mask_data))))

\* LayerRecord { .. }
LayerRecordOf(q) ==
    Value(q,
    [layer_top |-> q.vals[1],
     layer_left |-> q.vals[2],
     layer_bottom |-> q.vals[3],
     layer_right |-> q.vals[4],
     channel_info |-> q.vals[6],
     transparency_mask |-> None,
     user_supplied_layer_mask |-> None,
     real_user_supplied_layer_mask |-> None,
     blend_mode |-> q.vals[8],
     opacity |-> q.vals[9],
     clipping |-> q.vals[10],
     flags |-> q.vals[11],
     layer_mask_data |-> q.vals[15].layer_mask_data,
     layer_blending_ranges_data |-> q.vals[15].layer_blending_ranges_data,
     layer_name |-> q.vals[15].layer_name,
     additional_layer_info |-> q.vals[15].additional_layer_info])

parse_layer_record(p, build) ==
    LET layer_top == be_i32(Sub(p))
        layer_left == be_i32(layer_top)
        layer_bottom == be_i32(layer_left)
        layer_right == be_i32(layer_bottom)
        channels == be_u16(layer_right)
        channel_info == ChannelTable(channels, build)
        sig == tag(Sig8BIM, channel_info)
        blend_mode == map_res_BlendMode_try_from(take(4, sig))
        opacity == be_u8(blend_mode)
        clipping == map_res_Clipping_try_from(be_u8(opacity))
        flags == map_res_from_bits(be_u8(clipping))
        filler == take(1, flags)
        len == be_u32(filler)
        follow == take_len(len)
    IN  Ret(p, LayerRecordOf(parse_layer_record_extra(follow)))

-----------------------------------------------------------------------------
(* layer_info.rs: channel image data, channel normalization, the sections  *)

\* One pass of the inner loop, for channel j of record k of the records
\* read last: take(len), the compression, channel_info.data; input = i.
ChannelDataStep(p, k, j) ==
    LET data == take(Last(p)[k].channel_info[j].channel_data_length, Sub(p))
        compression == map_res_ImageCompression_from_u16(be_u16(Framed(data)))
    IN  IF compression.st # "ok" THEN Fail(compression)
        ELSE [st |-> "ok", rest |-> data.rest,
              vals |-> [p.vals EXCEPT ![Len(p.vals)][k].channel_info[j] =
                           [@ EXCEPT !.compression = Last(compression),
                                     !.data = compression.rest]]]

\* for layer_record in layer_records { for channel_info in .. { .. } }
RECURSIVE ChannelDataLoop(_, _, _)
ChannelDataLoop(p, k, j) ==
    IF p.st # "ok" \/ k > Len(Last(p)) THEN p
    ELSE IF j > Len(Last(p)[k].channel_info) THEN ChannelDataLoop(p, k + 1, 1)
    ELSE ChannelDataLoop(ChannelDataStep(p, k, j), k, j + 1)

\* parse_channel_image_data(input, &mut layer_records), the records being
\* the value read last.
parse_channel_image_data(p) == ChannelDataLoop(p, 1, 1)

\* Vec::sort_by_key(|ch| ch.channel_id): a stable sort (insertion of each
\* element behind the elements that are not greater).
RECURSIVE SortByChannelId(_)
SortByChannelId(chs) ==
    IF chs = <<>> THEN <<>>
    ELSE LET sorted == SortByChannelId(SubSeq(chs, 1, Len(chs) - 1))
             x == chs[Len(chs)]
             before == {i \in 1..Len(sorted) : sorted[i].channel_id <= x.channel_id}
             n == IF before = {} THEN 0 ELSE CHOOSE i \in before : \A j \in before : j <= i
         IN  SubSeq(sorted, 1, n) \o <<x>> \o SubSeq(sorted, n + 1, Len(sorted))

\* The element found is copied, not removed (variant).
SwapKeep(v, index) == v

\* Vec::swap_remove(index): the last element takes the place of the removed one.
SwapRemove(v, index) ==
    IF index = Len(v) THEN SubSeq(v, 1, Len(v) - 1)
    ELSE [i \in 1..(Len(v) - 1) |-> IF i = index THEN v[Len(v)] ELSE v[i]]

\* masks.iter().position(|ch| ch.channel_id == id).map(|index| masks.swap_remove(index)):
\* the channel taken (an Option) and what is left of masks.
TakeMask(masks, id) ==
    LET hits == {i \in 1..Len(masks) : masks[i].channel_id = id}
    IN  IF hits = {} THEN [taken |-> None, masks |-> masks]
        ELSE [taken |-> Some(masks[Min(hits)]), masks |-> SwapRemove(masks, Min(hits))]

\* *channel_data_width = (right - left) as u32; *channel_data_height = ..
\* on a Some(channel); None stays None.
WithMaskDims(opt, rect, build) ==
    IF ~opt.some THEN [st |-> "ok", val |-> opt]
    ELSE LET w == SubAsU32(rect.layer_mask_right, rect.layer_mask_left, build)
             h == SubAsU32(rect.layer_mask_bottom, rect.layer_mask_top, build)
         IN  IF w.st # "ok" \/ h.st # "ok" THEN [st |-> "panic", val |-> opt]
             ELSE [st |-> "ok",
                   val |-> Some([opt.v EXCEPT !.channel_data_width = w.val,
                                              !.channel_data_height = h.val])]

\* The body of the loop of sort_channel_data, for one record.
SortRecordChannels(rec, build) ==
    LET colors == SortByChannelId(SelectSeq(rec.channel_info, LAMBDA ch : ch.channel_id >= 0))
        masks0 == SelectSeq(rec.channel_info, LAMBDA ch : ~(ch.channel_id >= 0))
        t1 == TakeMask(masks0, -1)
        t2 == TakeMask(t1.masks, -2)
        t3 == TakeMask(t2.masks, -3)
        lmd == rec.layer_mask_data
        user == IF lmd.some THEN WithMaskDims(t2.taken, lmd.v, build)
                ELSE [st |-> "ok", val |-> t2.taken]
        real == IF lmd.some /\ lmd.v.optional.some
                THEN WithMaskDims(t3.taken, lmd.v.optional.v, build)
                ELSE [st |-> "ok", val |-> t3.taken]
    IN  IF user.st # "ok" \/ real.st # "ok" THEN [st |-> "panic", val |-> rec]
        ELSE [st |-> "ok",
              val |-> [rec EXCEPT !.channel_info = colors \o t3.masks,
                                  !.transparency_mask = t1.taken,
                                  !.user_supplied_layer_mask = user.val,
                                  !.real_user_supplied_layer_mask = real.val]]

\* for layer_record in layer_records { .. }: record k and the ones after it.
RECURSIVE SortRecordsLoop(_, _, _)
SortRecordsLoop(layer_records, k, build) ==
    IF k > Len(layer_records) THEN [st |-> "ok", val |-> layer_records]
    ELSE LET r == SortRecordChannels(layer_records[k], build)
         IN  IF r.st # "ok" THEN [st |-> "panic", val |-> <<>>]
             ELSE SortRecordsLoop([layer_records EXCEPT ![k] = r.val], k + 1, build)

\* sort_channel_data(&mut layer_records): [st, val], st "panic" when a
\* subtraction overflows in a build that checks it.
sort_channel_data(layer_records, build) == SortRecordsLoop(layer_records, 1, build)

\* layer_count.abs() for an i16: -32768 has no absolute value in i16; a
\* build with overflow checks panics, one without returns -32768.
LayerCountAbs(n, build) ==
    IF n = -32768
    THEN IF build = "debug" THEN [st |-> "panic", val |-> 0] ELSE [st |-> "ok", val |-> n]
    ELSE [st |-> "ok", val |-> IF n < 0 THEN 0 - n ELSE n]

\* for _ in 0..layer_count.abs() { parse_layer_record; layer_records.push }
RECURSIVE LayerRecordsLoop(_, _, _)
LayerRecordsLoop(p, n, build) ==
    IF p.st # "ok" \/ n <= 0 THEN p
    ELSE LayerRecordsLoop(PushVec(parse_layer_record(p, build)), n - 1, build)

\* let mut layer_records = Vec::new(); for _ in 0..layer_count.abs() { .. }
\* on the state that read layer_count last.
LayerRecords(p, build) ==
    IF p.st # "ok" THEN p
    ELSE IF LayerCountAbs(Last(p), build).st # "ok" THEN PPanic
    ELSE LayerRecordsLoop(NewVec(p), LayerCountAbs(Last(p), build).val, build)

\* The value read last becomes what a function made of it; the function
\* may have panicked.
Sorted(p, r) ==
    IF r.st # "ok" THEN PPanic ELSE [p EXCEPT !.vals = [@ EXCEPT ![Len(@)] = r.val]]
Layers(p, r) ==
    IF r.st # "ok" THEN PPanic ELSE [p EXCEPT !.vals = [@ EXCEPT ![Len(@)] = r.tree]]

\* sort_channel_data(&mut layer_records), on the records read last.
SortChannelData(p, build) ==
    IF p.st # "ok" THEN p ELSE Sorted(p, sort_channel_data(Last(p), build))

\* let layers = into_layer_tree(layer_records), on the records read last.
IntoLayerTree(p) ==
    IF p.st # "ok" THEN p ELSE Layers(p, into_layer_tree(Last(p)))

parse_layer_info(p, build) ==
    LET len == be_u32(Sub(p))
        follow == take_len(len)
        layer_count == be_i16(Framed(follow))
    IN  RetFramed(p, follow,
                  IntoLayerTree(SortChannelData(parse_channel_image_data(
                      LayerRecords(layer_count, build)), build)))

parse_global_layer_mask_info(p) ==
    LET len == be_u32(Sub(p))
        data == take_len(len)
    IN  Ret(p, data)

LayerAndMaskInformation(layer_info, global_layer_mask_info, additional) ==
    [layer_info |-> layer_info, global_layer_mask_info |-> global_layer_mask_info,
     additional_layer_information |-> additional]

\* LayerAndMaskInformation { layer_info, global_layer_mask_info,
\* additional_layer_information: input }
LayerAndMaskInformationOf(q) ==
    Value(q, LayerAndMaskInformation(q.vals[1], q.vals[2], q.rest))

parse_layer_and_mask_information(p, build) ==
    LET len == be_u32(Sub(p))
        follow == take_len(len)
    IN  RetFramed(p, follow,
                  LayerAndMaskInformationOf(
                      parse_global_layer_mask_info(parse_layer_info(Framed(follow), build))))

-----------------------------------------------------------------------------
(* lib.rs: parse_psd                                                       *)

\* Result::unwrap: an Err becomes a panic.
Unwrap(p) == IF p.st = "err" THEN PPanic ELSE p

Psd(header, color_mode, image_resources, layer_information, image_data) ==
    [header |-> header, color_mode |-> color_mode,
     image_resources |-> image_resources,
     layer_information |-> layer_information, image_data |-> image_data]

\* Ok(Psd { header, color_mode, image_resources, layer_information, image_data })
\* after the five parsers; the thread has unwound ("panic") otherwise.
PsdOf(q) ==
    IF q.st # "ok" THEN [st |-> "panic", val |-> <<>>]
    ELSE [st |-> "ok", val |-> Psd(q.vals[1], q.vals[2], q.vals[3], q.vals[4], q.vals[5])]

\* parse_psd: the value of the call is Ok(psd) ("ok"), an Err ("err", which
\* no path produces) or the thread unwinds ("panic").
parse_psd(input, build) ==
    LET header == Unwrap(parse_header(Start(input)))
        color_mode == Unwrap(parse_color_mode(header))
        image_resources == Unwrap(parse_image_resources(color_mode, build))
        layer_information == Unwrap(parse_layer_and_mask_information(image_resources, build))
        image_data == Unwrap(parse_image_data(layer_information))
    IN  PsdOf(image_data)

-----------------------------------------------------------------------------
(* Inputs of the parse_psd specification: documents written section by     *)
(* section, as a PSD writer lays them out, and damaged copies of them.     *)

MaxBlocks == 1

Zeros(n) == [i \in 1..n |-> 0]
U16(n) == <<n \div 256, n % 256>>
U32(n) == <<n \div 16777216, (n \div 65536) % 256, (n \div 256) % 256, n % 256>>
I16(n) == U16(n % 65536)
I32(n) ==
    IF n >= 0 THEN U32(n)
    ELSE LET m == n + 2147483647 + 1
         IN  <<128 + m \div 16777216, (m \div 65536) % 256, (m \div 256) % 256, m % 256>>

\* A length field that declares more than any of the documents holds.
LieU32 == <<0, 0, 255, 255>>
LieU8 == <<255>>

HeaderBytes(channels, height, width, depth, color_mode) ==
    Sig8BPS \o U16(1) \o Zeros(6) \o U16(channels) \o U32(height) \o U32(width)
            \o U16(depth) \o U16(color_mode)

\* A resource block; the name is padded to an even total with its length
\* byte, the data to an even length.
ResourceBlockBytes(id, name, data, lie) ==
    Sig8BIM \o U16(id)
        \o (IF lie = "block_name" THEN LieU8 ELSE <<Len(name)>>) \o name
        \o Zeros(IF Len(name) % 2 = 0 THEN 1 ELSE 0)
        \o (IF lie = "block_data" THEN LieU32 ELSE U32(Len(data))) \o data
        \o Zeros(Len(data) % 2)

\* Block k of a document: the block of scenario S5 (name of 3 bytes, data of
\* 5 bytes) for odd k, a block with an empty name and 2 bytes for even k.
DocBlock(k, lie) ==
    IF k % 2 = 1
    THEN ResourceBlockBytes(1005, <<97, 98, 99>>, <<1, 2, 3, 4, 5>>, IF k = 1 THEN lie ELSE "none")
    ELSE ResourceBlockBytes(1006, <<>>, <<9, 9>>, "none")

ResourcesBytes(n, lie) ==
    LET body == Flatten([k \in 1..n |-> DocBlock(k, lie)])
    IN  (IF lie = "resources" THEN LieU32 ELSE U32(Len(body))) \o body

\* One lsct additional-info block of the given section divider type.
LsctBytes(type) == Sig8BIM \o KeyLsct \o U32(4) \o U32(type)

\* The kinds of layer that carry channels.
PixelKinds == {"leaf", "wide", "rle", "zip", "vast"}

\* The blob of one channel of a layer: the compression code and the byte b
\* of a 1 x 1 plane, Raw, RLE (a scanline table of one entry and a literal
\* run of one byte) or Zip.
DocBlob(kind, b) ==
    CASE kind \in {"rle", "vast"} -> U16(1) \o U16(2) \o <<0, b>>
      [] kind = "zip" -> U16(2) \o <<b>>
      [] OTHER -> U16(0) \o <<b>>

\* The layer record of a layer of the given kind: a leaf is a 1 x 1 layer
\* with a transparency channel and one colour channel, a marker an empty
\* layer with one lsct block; a wide layer is a leaf with top 2^31 - 1 and
\* bottom -2, a height that is no i32.  The name is "L", padded to 4 with
\* its length.  An rle layer and a zip layer are leaves whose channel blobs
\* are RLE and Zip; a vast layer is an rle layer of one row of 2^31 - 1
\* pixels.
DocLayerRecord(kind, lie) ==
    LET leaf == kind \in PixelKinds
        rect == CASE kind \in {"leaf", "rle", "zip"} -> I32(0) \o I32(0) \o I32(1) \o I32(1)
                  [] kind = "wide" -> I32(2147483647) \o I32(0) \o I32(-2) \o I32(1)
                  [] kind = "vast" -> I32(0) \o I32(0) \o I32(1) \o I32(2147483647)
                  [] OTHER -> I32(0) \o I32(0) \o I32(0) \o I32(0)
        table == IF leaf
                 THEN U16(2) \o I16(-1)
                        \o (IF lie = "channel" THEN LieU32 ELSE U32(Len(DocBlob(kind, 17))))
                        \o I16(0) \o U32(Len(DocBlob(kind, 34)))
                 ELSE U16(0)
        name == (IF lie = "layer_name" THEN LieU8 ELSE <<1>>) \o <<76>> \o Zeros(2)
        infos == CASE kind = "bound" -> LsctBytes(3)
                   [] kind = "open" -> LsctBytes(1)
                   [] kind = "closed" -> LsctBytes(2)
                   [] OTHER -> <<>>
        extra == U32(0) \o U32(0) \o name \o infos
    IN  rect \o table \o Sig8BIM \o <<110, 111, 114, 109>> \o <<255, 0, 8, 0>>
             \o (IF lie = "extra" THEN LieU32 ELSE U32(Len(extra))) \o extra

\* The channel blobs of a layer: a compression code and the one byte b of
\* the 1 x 1 plane, per channel.
DocLayerBlobs(kind) ==
    IF kind \in PixelKinds THEN DocBlob(kind, 17) \o DocBlob(kind, 34) ELSE <<>>

\* The layer-and-mask-information section: an empty envelope (length 0) or
\* an envelope with the layer-info sub-frame and an empty global mask info.
LayerSectionBytes(envelope, plan, lie) ==
    IF envelope = "empty" THEN U32(0)
    ELSE LET records == Flatten([k \in 1..Len(plan) |->
                            DocLayerRecord(plan[k], IF k = 1 THEN lie ELSE "none")])
             blobs == Flatten([k \in 1..Len(plan) |-> DocLayerBlobs(plan[k])])
             frame == I16(Len(plan)) \o records \o blobs
             info == (IF lie = "layer_info" THEN LieU32 ELSE U32(Len(frame))) \o frame
             body == info \o U32(0)
         IN  (IF lie = "envelope" THEN LieU32 ELSE U32(Len(body))) \o body

\* The image data of the documents: Raw, three planes of one byte.
DocImagePayload == <<170, 187, 204>>

\* A document: the header of scenario S1 (3 channels, 1 x 1, depth 8, RGB),
\* no colour-mode data, n resource blocks, the layer section, the image data.
Document(n, envelope, plan, lie) ==
    HeaderBytes(3, 1, 1, 8, 3) \o U32(0) \o ResourcesBytes(n, lie)
        \o LayerSectionBytes(envelope, plan, lie) \o U16(0) \o DocImagePayload

\* Scenario S1: no resources, layer-and-mask envelope of length 0.
S1Document == Document(0, "empty", <<>>, "none")

\* The layer lists of the documents (file order, bottom up).
LayerPlans ==
    { <<>>, <<"leaf">>, <<"bound", "leaf", "open">>, <<"leaf", "bound", "leaf", "closed">>,
      <<"open">>, <<"bound", "leaf">>, <<"wide">> }

\* The length fields a damaged document may overstate.
Lies ==
    {"resources", "block_name", "block_data", "envelope", "layer_info", "extra",
     "layer_name", "channel"}

\* The field exists in the document.
LieApplies(lie, n, envelope, plan) ==
    CASE lie \in {"block_name", "block_data"} -> n >= 1
      [] lie \in {"envelope", "layer_info"} -> envelope = "framed"
      [] lie \in {"extra", "layer_name"} -> envelope = "framed" /\ Len(plan) >= 1
      [] lie = "channel" ->
             envelope = "framed" /\ Len(plan) >= 1 /\ plan[1] \in PixelKinds
      [] OTHER -> TRUE

Init ==
    /\ TreeIdle
    /\ RleIdle
    /\ MemIdle
    /\ CacheIdle
    /\ DetachIdle
    /\ pbuild \in {"debug", "release"}
    /\ ppc = "header"
    /\ pparts = <<>>
    /\ pout = [st |-> "run", val |-> <<>>]
    /\ \E n \in 0..MaxBlocks : \E envelope \in {"empty", "framed"} : \E plan \in LayerPlans :
          /\ envelope = "empty" => plan = <<>>
          /\ \/ /\ pin = [blocks |-> n, envelope |-> envelope, plan |-> plan,
                          damage |-> "none", at |-> 0]
                /\ pinput = Document(n, envelope, plan, "none")
             \/ \E at \in 0..(Len(Document(n, envelope, plan, "none")) - 1) :
                /\ pin = [blocks |-> n, envelope |-> envelope, plan |-> plan,
                          damage |-> "cut", at |-> at]
                /\ pinput = Take(Document(n, envelope, plan, "none"), at)
             \/ \E lie \in Lies :
                /\ LieApplies(lie, n, envelope, plan)
                /\ pin = [blocks |-> n, envelope |-> envelope, plan |-> plan,
                          damage |-> lie, at |-> 0]
                /\ pinput = Document(n, envelope, plan, lie)
    /\ prest = pinput

\* The parser state parse_psd is in: the input left and the parts parsed.
PsdState == [st |-> "ok", rest |-> prest, vals |-> pparts]

\* One line of parse_psd: `let (input, x) = parser(input).unwrap();` with r
\* the state the unwrapped parser leaves; after the last parser Ok(Psd {..})
\* is returned.
PsdLine(r, next) ==
    /\ IF r.st = "ok"
       THEN /\ prest' = r.rest
            /\ pparts' = r.vals
            /\ ppc' = next
            /\ pout' = IF next = "done" THEN PsdOf(r) ELSE pout
       ELSE /\ ppc' = "done"
            /\ pout' = PsdOf(r)
            /\ UNCHANGED <<prest, pparts>>
    /\ UNCHANGED <<pinput, pbuild, pin>>
    /\ UNCHANGED <<treeVars, rleVars, cacheVars, detachVars, envVars>>

PsdHeaderLine ==
    /\ ppc = "header"
    /\ PsdLine(Unwrap(parse_header(PsdState)), "color_mode")

PsdColorModeLine ==
    /\ ppc = "color_mode"
    /\ PsdLine(Unwrap(parse_color_mode(PsdState)), "image_resources")

PsdImageResourcesLine ==
    /\ ppc = "image_resources"
    /\ PsdLine(Unwrap(parse_image_resources(PsdState, pbuild)), "layer_information")

PsdLayerInformationLine ==
    /\ ppc = "layer_information"
    /\ PsdLine(Unwrap(parse_layer_and_mask_information(PsdState, pbuild)), "image_data")

PsdImageDataLine ==
    /\ ppc = "image_data"
    /\ PsdLine(Unwrap(parse_image_data(PsdState)), "done")

Next ==
    \/ PsdHeaderLine
    \/ PsdColorModeLine
    \/ PsdImageResourcesLine
    \/ PsdLayerInformationLine
    \/ PsdImageDataLine

Spec == Init /\ [][Next]_vars

\* The lines of parse_psd run one per step end as parse_psd run at once does.
PsdLinesAgree ==
    ppc = "done" => pout = parse_psd(pinput, pbuild)

\* The layer list of a document is balanced (every folder closes a bound).
PlanBalanced(plan) ==
    plan \in { <<>>, <<"leaf">>, <<"bound", "leaf", "open">>,
               <<"leaf", "bound", "leaf", "closed">> }

\* The documents as written, with a framed layer section and a balanced
\* layer list, parse.
WrittenDocumentsParse ==
    (ppc = "done" /\ pin.damage = "none" /\ pin.envelope = "framed"
        /\ PlanBalanced(pin.plan)) =>
        /\ pout.st = "ok"
        /\ Len(pout.val.image_resources) = pin.blocks
        /\ Len(LeavesOf(pout.val.layer_information.layer_info))
             = Len(SelectSeq(pin.plan, LAMBDA k : k = "leaf"))

\* The height of the wide layer is computed by a build without overflow
\* checks only: the document parses there, with the wrapped height, and
\* panics in a build with the checks.
OverflowDependsOnBuild ==
    (ppc = "done" /\ pin.damage = "none" /\ pin.plan = <<"wide">>) =>
        IF pbuild = "debug" THEN pout.st = "panic"
        ELSE /\ pout.st = "ok"
             /\ LeavesOf(pout.val.layer_information.layer_info)[1]
                    .channel_info[1].channel_data_height = 2147483647

\* A read of the damaged document passes the end of the buffer: a length
\* field overstates what follows, or the document is cut before its image
\* payload (parse_image_data takes whatever payload is left).
ReadPassesEnd ==
    \/ pin.damage \in Lies
    \/ /\ pin.damage = "cut"
       /\ pin.at < Len(Document(pin.blocks, pin.envelope, pin.plan, "none"))
                     - Len(DocImagePayload)

\* parse_psd has no path that returns Err: every parser's result is
\* unwrapped.
PsdNeverReturnsErr ==
    pout.st # "err"

\* Every document a read of which passes the end makes parse_psd unwind.
DamagedDocumentsPanic ==
    (ppc = "done" /\ ReadPassesEnd) => pout.st = "panic"

\* C8: parse_psd succeeds on the document of scenario S1 (valid header,
\* colour-mode length 0, image-resources length 0, layer-and-mask envelope of
\* declared length 0, image data) and the parsed layer_info is empty.
C8_EmptyEnvelopeParses ==
    (ppc = "done" /\ pinput = S1Document) =>
        /\ pout.st = "ok"
        /\ pout.val.layer_information.layer_info = <<>>

\* C9: for every input in which a read passes the end of the buffer or a
\* length prefix declares more bytes than are available, parse_psd ends by
\* returning Err; it neither panics nor returns a document.
C9_TruncatedIsParseError ==
    (ppc = "done" /\ ReadPassesEnd) => pout.st = "err"

-----------------------------------------------------------------------------
(* The lazy plane cache: raw_data called from several threads on one       *)
(* shared ChannelInfo or ImageData.  self.raw_data is a                    *)
(* once_cell::sync::OnceCell and raw_data is one call of get_or_init: a     *)
(* set cell is read; of the threads that find it empty one runs the        *)
(* closure and the others wait; the value the closure returns is stored    *)
(* and returned; when the closure panics the cell stays empty and the      *)
(* panic unwinds the caller.  A closure that never returns keeps running.  *)

\* The calls of raw_data a thread makes.
MaxCalls == 2

Threads == 1..MaxThreads

\* The closure handed to get_or_init, for either kind of self, on the
\* machine the program runs on.
RawDataClosure(self) ==
    IF self.kind = "channel" THEN ChannelInfo_raw_data(self, mem)
    ELSE ImageData_raw_data(self, mem)

\* The values the threads share: channels whose closure returns (Raw, RLE),
\* panics (Zip, a literal run cut short) or never returns (a no-op marker),
\* image data (Raw, RLE), and a channel whose plane is beyond AllocSure.
SharedValues ==
    { S3Channel,
      ParsedChannel(1, 1, "Raw", <<7>>),
      ParsedChannel(1, 1, "ZipWithPrediction", <<7>>),
      ParsedChannel(1, 1, "RLE", ScanlineTable(1, 2) \o <<1, 7>>),
      ParsedChannel(1, 1, "RLE", ScanlineTable(1, 3) \o <<128, 0, 7>>),
      ImageData("Raw", <<170, 187, 204>>, 1, 1, 3),
      ImageData("RLE", ScanlineTable(2, 2) \o <<0, 7, 0, 8>>, 1, 1, 2),
      VastChannel }

CacheInit ==
    /\ TreeIdle
    /\ RleIdle
    /\ mem \in Memories
    /\ ParseIdle
    /\ DetachIdle
    /\ cself \in SharedValues
    /\ ccell = None
    /\ cowner = 0
    /\ cpc = [t \in Threads |-> "idle"]
    /\ cret = [t \in Threads |-> <<>>]
    /\ cwrites = 0
    /\ craced = FALSE

\* A variant of get_or_init that lets a thread run the closure while
\* another thread runs it.
MayInitializeUnguarded == ~ccell.some

\* get_or_init on an empty cell: the thread runs the closure when no other
\* thread does; it waits otherwise.
MayInitialize == ~ccell.some /\ cowner = 0

\* A thread calls self.raw_data().
CacheCall(t) ==
    /\ cpc[t] = "idle"
    /\ Len(cret[t]) < MaxCalls
    /\ cpc' = [cpc EXCEPT ![t] = "call"]
    /\ craced' = (craced \/ cowner # 0)
    /\ UNCHANGED <<cself, ccell, cowner, cret, cwrites>>
    /\ UNCHANGED <<treeVars, rleVars, parseVars, detachVars, envVars>>

\* get_or_init finds the cell set (at once, or after waiting for the thread
\* that ran the closure): raw_data returns the stored value.
CacheGet(t) ==
    /\ cpc[t] = "call"
    /\ ccell.some
    /\ cret' = [cret EXCEPT ![t] = Append(@, ccell.v)]
    /\ cpc' = [cpc EXCEPT ![t] = "idle"]
    /\ UNCHANGED <<cself, ccell, cowner, cwrites, craced>>
    /\ UNCHANGED <<treeVars, rleVars, parseVars, detachVars, envVars>>

\* get_or_init finds the cell empty and starts the closure.
CacheBegin(t) ==
    /\ cpc[t] = "call"
    /\ MayInitialize
    /\ cowner' = t
    /\ cpc' = [cpc EXCEPT ![t] = "init"]
    /\ craced' = (craced \/ \E u \in Threads \ {t} : cpc[u] \in {"call", "init"})
    /\ UNCHANGED <<cself, ccell, cret, cwrites>>
    /\ UNCHANGED <<treeVars, rleVars, parseVars, detachVars, envVars>>

\* The closure returns: the value is stored in the cell and returned.
CacheStore(t) ==
    /\ cpc[t] = "init"
    /\ RawDataClosure(cself).st = "ok"
    /\ ccell' = Some(RawDataClosure(cself).value)
    /\ cwrites' = cwrites + 1
    /\ cowner' = 0
    /\ cret' = [cret EXCEPT ![t] = Append(@, RawDataClosure(cself).value)]
    /\ cpc' = [cpc EXCEPT ![t] = "idle"]
    /\ UNCHANGED <<cself, craced>>
    /\ UNCHANGED <<treeVars, rleVars, parseVars, detachVars, envVars>>

\* The closure panics: the cell stays empty, the thread unwinds, and a
\* waiting thread may run the closure in its turn.
CachePanic(t) ==
    /\ cpc[t] = "init"
    /\ RawDataClosure(cself).st = "panic"
    /\ cowner' = 0
    /\ cpc' = [cpc EXCEPT ![t] = "panicked"]
    /\ UNCHANGED <<cself, ccell, cret, cwrites, craced>>
    /\ UNCHANGED <<treeVars, rleVars, parseVars, detachVars, envVars>>

\* The allocation in the closure fails: the process is aborted, and every
\* thread with it.
CacheAbort(t) ==
    /\ cpc[t] = "init"
    /\ RawDataClosure(cself).st = "abort"
    /\ cpc' = [u \in Threads |-> "aborted"]
    /\ UNCHANGED <<cself, ccell, cowner, cret, cwrites, craced>>
    /\ UNCHANGED <<treeVars, rleVars, parseVars, detachVars, envVars>>

CacheNext ==
    \/ \E t \in Threads : CacheAbort(t)
    \/ \E t \in Threads : CacheCall(t)
    \/ \E t \in Threads : CacheGet(t)
    \/ \E t \in Threads : CacheBegin(t)
    \/ \E t \in Threads : CacheStore(t)
    \/ \E t \in Threads : CachePanic(t)

SpecCache == CacheInit /\ [][CacheNext]_vars

\* A value in the cell stays there.
CacheNeverReplaced ==
    [][ccell.some => ccell' = ccell]_vars

\* At most one thread runs the closure.
OneInitializer ==
    Cardinality({t \in Threads : cpc[t] = "init"}) <= 1

\* C10: the plane cache is write-once.  Under every interleaving of
\* raw_data calls of the threads on the shared value, a value is stored at
\* most once, the cell holds the value stored first, and every call that
\* returned, concurrent or later, returned the bytes in the cell.
C10_CacheIsWriteOnce ==
    /\ cwrites <= 1
    /\ ccell.some <=> cwrites = 1
    /\ ccell.some => ccell.v = RawDataClosure(cself).value
    /\ \A t \in Threads : \A i \in 1..Len(cret[t]) :
          ccell.some /\ cret[t][i] = ccell.v

\* Two threads were in get_or_init together, one ran the decompression of
\* scenario S3, and every thread returned from all its calls.
C10_Witness ==
    /\ cself = S3Channel
    /\ craced
    /\ cwrites = 1
    /\ \A t \in Threads : Len(cret[t]) = MaxCalls

-----------------------------------------------------------------------------
(* into_static (detach) and raw_data on a value that one owner holds.      *)
(* A function that can panic or not return gives [st, val].                *)

\* Cow::into_owned: the bytes, copied.
into_owned(bytes) == [i \in 1..Len(bytes) |-> bytes[i]]

\* What get_or_init gives for the outcome r of the closure: the value is
\* stored in the cell of self and returned; a panic leaves the cell empty.
InitializedBy(self, r) ==
    IF r.st # "ok" THEN [st |-> r.st, self |-> self, value |-> <<>>]
    ELSE [st |-> "ok", self |-> [self EXCEPT !.raw_data = Some(r.value)],
          value |-> r.value]

\* self.raw_data.get_or_init(|| ..), the body of raw_data, for one owner:
\* a set cell is read, the closure runs on an empty one.  [st, self, value]
\* with self the value after the call.
get_or_init(self) ==
    IF self.raw_data.some
    THEN [st |-> "ok", self |-> self, value |-> self.raw_data.v]
    ELSE InitializedBy(self, RawDataClosure(self))

\* Variants of what into_static puts in the new cell.
DetachedCellEmpty(plane) == None
DetachedPlaneFromData(self) == self.data

\* raw_data.into_inner().unwrap() of a channel, after the raw_data call.
DetachedPlane(self) == self.raw_data.v

\* raw_data_cell.set(..): the new cell holds the owned plane(s).
DetachedCell(plane) == Some(plane)

\* ChannelInfo::into_static after `let _ = self.raw_data()` gave r:
\* into_inner().unwrap() panics on an empty cell.
ChannelInfoDetached(r) ==
    IF r.st # "ok" THEN [st |-> r.st, val |-> <<>>]
    ELSE IF ~r.self.raw_data.some THEN [st |-> "panic", val |-> <<>>]
    ELSE [st |-> "ok",
          val |-> [r.self EXCEPT !.data = into_owned(@), !.owned = TRUE,
                                 !.raw_data = DetachedCell(into_owned(DetachedPlane(r.self)))]]

ChannelInfo_into_static(self) == ChannelInfoDetached(get_or_init(self))

\* raw_data.into_iter().map(Cow::into_owned).map(Cow::Owned).collect()
OwnedPlanes(list) == [k \in 1..Len(list) |-> into_owned(list[k])]

\* ImageData::into_static after `let _ = self.raw_data()` gave r.
ImageDataDetached(r) ==
    IF r.st # "ok" THEN [st |-> r.st, val |-> <<>>]
    ELSE IF ~r.self.raw_data.some THEN [st |-> "panic", val |-> <<>>]
    ELSE [st |-> "ok",
          val |-> [r.self EXCEPT !.data = into_owned(@), !.owned = TRUE,
                                 !.raw_data = DetachedCell(OwnedPlanes(r.self.raw_data.v))]]

ImageData_into_static(self) == ImageDataDetached(get_or_init(self))

\* xs.into_iter().map(f).collect() for the outcomes rs of f on the
\* elements: the first f that does not return decides.
Collected(rs) ==
    LET bad == {k \in 1..Len(rs) : rs[k].st # "ok"}
    IN  IF bad = {} THEN [st |-> "ok", val |-> [k \in 1..Len(rs) |-> rs[k].val]]
        ELSE [st |-> rs[Min(bad)].st, val |-> <<>>]

\* Option::map(ChannelInfo::into_static), with r the outcome of into_static.
OptionSome(r) == IF r.st # "ok" THEN r ELSE [st |-> "ok", val |-> Some(r.val)]

OptionInfoStatic(opt) ==
    IF ~opt.some THEN [st |-> "ok", val |-> None]
    ELSE OptionSome(ChannelInfo_into_static(opt.v))

\* AdditionalLayerInformation::into_static
AdditionalLayerInformation_into_static(info) ==
    IF info.kind = "Unknown" THEN UnknownInfo(into_owned(info.key), into_owned(info.data))
    ELSE SectionDividerInfo(info.section_divider_type, info.key, info.sub_type)

\* The struct literal of LayerRecord::into_static, with parts the outcomes
\* for channel_info and the three mask slots.
LayerRecordStatic(rec, parts) ==
    IF parts.st # "ok" THEN parts
    ELSE [st |-> "ok",
          val |-> [rec EXCEPT
             !.channel_info = parts.val[1],
             !.transparency_mask = parts.val[2],
             !.user_supplied_layer_mask = parts.val[3],
             !.real_user_supplied_layer_mask = parts.val[4],
             !.layer_blending_ranges_data = into_owned(@),
             !.layer_name = into_owned(@),
             !.additional_layer_info =
                 [k \in 1..Len(@) |-> AdditionalLayerInformation_into_static(@[k])]]]

\* LayerRecord::into_static: the fields in the order of the struct literal.
LayerRecord_into_static(rec) ==
    LayerRecordStatic(rec,
        Collected(<<Collected([k \in 1..Len(rec.channel_info) |->
                                  ChannelInfo_into_static(rec.channel_info[k])]),
                    OptionInfoStatic(rec.transparency_mask),
                    OptionInfoStatic(rec.user_supplied_layer_mask),
                    OptionInfoStatic(rec.real_user_supplied_layer_mask)>>))

\* The variant built by LayerTreeNode::into_static, with parts the outcomes
\* for the record and the children.
LayerTreeNodeStatic(node, parts) ==
    IF parts.st # "ok" THEN parts
    ELSE [st |-> "ok",
          val |-> IF node.kind = "Leaf" THEN Leaf(parts.val[1])
                  ELSE Node(parts.val[1], parts.val[2])]

\* LayerTreeNode::into_static
RECURSIVE LayerTreeNode_into_static(_)
LayerTreeNode_into_static(node) ==
    LayerTreeNodeStatic(node,
        Collected(<<LayerRecord_into_static(node.record),
                    Collected([k \in 1..Len(node.children) |->
                                  LayerTreeNode_into_static(node.children[k])])>>))

\* ImageResourceBlock::into_static
ImageResourceBlock_into_static(self) ==
    ImageResourceBlock(self.resource_id, into_owned(self.name),
                       into_owned(self.resource_data))

\* ImageResources::into_static
ImageResources_into_static(list) ==
    [k \in 1..Len(list) |-> ImageResourceBlock_into_static(list[k])]

\* ColorModeData::into_static
ColorModeData_into_static(data) == into_owned(data)

\* The struct literal of Psd::into_static: LayerAndMaskInformation::into_static
\* and ImageData::into_static gave parts.
PsdStatic(self, parts) ==
    IF parts.st # "ok" THEN parts
    ELSE [st |-> "ok",
          val |-> Psd(self.header, ColorModeData_into_static(self.color_mode),
                      ImageResources_into_static(self.image_resources),
                      LayerAndMaskInformation(parts.val[1],
                          into_owned(self.layer_information.global_layer_mask_info),
                          into_owned(self.layer_information.additional_layer_information)),
                      parts.val[2])]

\* LayerAndMaskInformation::into_static, the layer_info field.
LayerAndMaskInformation_into_static(self) ==
    Collected([k \in 1..Len(self.layer_info) |->
                  LayerTreeNode_into_static(self.layer_info[k])])

\* Psd::into_static: the fields in the order of the struct literal.
Psd_into_static(self) ==
    PsdStatic(self,
        Collected(<<LayerAndMaskInformation_into_static(self.layer_information),
                    ImageData_into_static(self.image_data)>>))

\* The outcome of a raw_data call as the value it leaves: [st, val].
Touched(r) == [st |-> r.st, val |-> r.self]

\* raw_data called on the channel when its id is the given one.
TouchChannel(ch, id) ==
    IF ch.channel_id = id THEN Touched(get_or_init(ch)) ELSE [st |-> "ok", val |-> ch]

\* raw_data called on the channels of a record that have the id: the ones
\* in channel_info, or the transparency mask for id -1.
TouchRecord(rec, id) ==
    LET channel_info == Collected([k \in 1..Len(rec.channel_info) |->
                                      TouchChannel(rec.channel_info[k], id)])
        mask == IF rec.transparency_mask.some
                THEN TouchChannel(rec.transparency_mask.v, id)
                ELSE [st |-> "ok", val |-> <<>>]
    IN  CASE channel_info.st # "ok" -> channel_info
          [] mask.st # "ok" -> mask
          [] OTHER ->
             [st |-> "ok",
              val |-> [rec EXCEPT !.channel_info = channel_info.val,
                                  !.transparency_mask =
                                      IF @.some THEN Some(mask.val) ELSE @]]

\* The same, for every record of a tree.
RECURSIVE TouchNode(_, _)
TouchNode(node, id) ==
    LET record == TouchRecord(node.record, id)
        children == Collected([k \in 1..Len(node.children) |->
                                  TouchNode(node.children[k], id)])
    IN  CASE record.st # "ok" -> record
          [] node.kind = "Leaf" -> [st |-> "ok", val |-> Leaf(record.val)]
          [] children.st # "ok" -> children
          [] OTHER -> [st |-> "ok", val |-> Node(record.val, children.val)]

TouchNodes(nodes, id) == Collected([k \in 1..Len(nodes) |-> TouchNode(nodes[k], id)])

\* What the accessors of a channel return: channel_id(), channel_data_length(),
\* compression(), data() and raw_data().
ObserveChannel(ch) ==
    [channel_id |-> ch.channel_id, channel_data_length |-> ch.channel_data_length,
     compression |-> ch.compression, data |-> ch.data,
     raw_data |-> [st |-> get_or_init(ch).st, value |-> get_or_init(ch).value]]

ObserveOption(opt) == IF opt.some THEN Some(ObserveChannel(opt.v)) ELSE None

\* What the accessors of a layer record return.
ObserveRecord(rec) ==
    [rec EXCEPT !.channel_info = [k \in 1..Len(@) |-> ObserveChannel(@[k])],
                !.transparency_mask = ObserveOption(@),
                !.user_supplied_layer_mask = ObserveOption(@),
                !.real_user_supplied_layer_mask = ObserveOption(@)]

RECURSIVE ObserveNode(_)
ObserveNode(node) ==
    [kind |-> node.kind, record |-> ObserveRecord(node.record),
     children |-> [k \in 1..Len(node.children) |-> ObserveNode(node.children[k])]]

\* What the accessors of the image data return: compression() and raw_data().
ObserveImage(img) ==
    [compression |-> img.compression,
     raw_data |-> [st |-> get_or_init(img).st, value |-> get_or_init(img).value]]

\* What the accessors of a Psd return, down to the bytes.
ObservePsd(psd) ==
    [header |-> psd.header, color_mode |-> psd.color_mode,
     image_resources |-> psd.image_resources,
     layer_info |-> [k \in 1..Len(psd.layer_information.layer_info) |->
                        ObserveNode(psd.layer_information.layer_info[k])],
     global_layer_mask_info |-> psd.layer_information.global_layer_mask_info,
     additional_layer_information |-> psd.layer_information.additional_layer_information,
     image_data |-> ObserveImage(psd.image_data)]

\* The calls the owner makes.
MaxOps == 3

\* The image data of the documents: Raw, RLE (a scanline table of three
\* entries and three literal runs of one byte) and Zip, for 3 planes of 1 x 1.
DetachImage(image) ==
    CASE image = "Raw" -> U16(0) \o DocImagePayload
      [] image = "RLE" -> U16(1) \o ScanlineTable(3, 2) \o <<0, 170, 0, 187, 0, 204>>
      [] OTHER -> U16(2) \o <<1>>

\* A document with n resource blocks, the layers of the plan and the image.
DetachDocument(n, plan, image) ==
    HeaderBytes(3, 1, 1, 8, 3) \o U32(0) \o ResourcesBytes(n, "none")
        \o LayerSectionBytes("framed", plan, "none") \o DetachImage(image)

\* The layer lists of the documents.  A wide layer parses where the
\* subtraction of its rectangle wraps and panics where it is checked; a
\* folder without its bound panics in into_layer_tree in either build.
DetachPlans ==
    { <<>>, <<"leaf">>, <<"rle">>, <<"zip">>, <<"vast">>, <<"wide">>, <<"open">>,
      <<"bound", "rle", "leaf", "open">>, <<"leaf", "bound", "zip", "closed">> }

DetachInit ==
    /\ TreeIdle
    /\ RleIdle
    /\ mem \in Memories
    /\ ParseIdle
    /\ CacheIdle
    /\ \E n \in 0..MaxBlocks : \E plan \in DetachPlans : \E image \in {"Raw", "RLE", "Zip"} :
       \E build \in {"debug", "release"} :
          din = [blocks |-> n, plan |-> plan, image |-> image,
                 bytes |-> DetachDocument(n, plan, image), build |-> build]
    /\ dorig = <<>>
    /\ dpsd = <<>>
    /\ dst = "start"
    /\ dn = 0
    /\ dops = 0
    /\ dunreach = FALSE
    /\ dlast = "none"

\* parse_psd(&bytes) returned r: the owner holds the Psd; when an unwrap
\* in parse_psd panicked the thread has unwound and there is no Psd.
DetachParsed(r) ==
    /\ dst = "start"
    /\ dorig' = IF r.st = "ok" THEN r.val ELSE <<>>
    /\ dpsd' = dorig'
    /\ dst' = IF r.st = "ok" THEN "live" ELSE r.st
    /\ dlast' = "parse"
    /\ UNCHANGED <<dn, dops, dunreach, din>>
    /\ UNCHANGED <<treeVars, rleVars, parseVars, cacheVars, envVars>>

\* parse_psd(&bytes) on the document, in the build of the program.
DetachParse == DetachParsed(parse_psd(din.bytes, din.build))

\* The owner's call returned r = [st, val]: the Psd it holds after it.
DetachCalled(r) ==
    /\ dops' = dops + 1
    /\ dst' = IF r.st = "ok" THEN "live" ELSE r.st
    /\ dpsd' = IF r.st = "ok" THEN r.val ELSE dpsd
    /\ UNCHANGED <<dorig, din>>
    /\ UNCHANGED <<treeVars, rleVars, parseVars, cacheVars, envVars>>

\* psd.image_data().raw_data()
DetachImageRawData ==
    /\ dst = "live"
    /\ dops < MaxOps
    /\ LET r == Touched(get_or_init(dpsd.image_data))
       IN  DetachCalled([st |-> r.st, val |-> [dpsd EXCEPT !.image_data = r.val]])
    /\ dunreach' = (dunreach \/ (~dpsd.image_data.raw_data.some /\ RawOfOwned(dpsd.image_data)))
    /\ dn' = dn
    /\ dlast' = "image"

\* raw_data() on the channels of id -1 or 0 of every layer record.
DetachChannelRawData ==
    /\ dst = "live"
    /\ dops < MaxOps
    /\ \E id \in {-1, 0} :
         LET r == TouchNodes(dpsd.layer_information.layer_info, id)
         IN  DetachCalled([st |-> r.st,
                           val |-> [dpsd EXCEPT !.layer_information.layer_info = r.val]])
    /\ dlast' = "channel"
    /\ UNCHANGED <<dn, dunreach>>

\* into_static returned r: the raw_data call in ImageData::into_static runs
\* the closure when the cell is empty.
DetachedTo(r) ==
    /\ DetachCalled(r)
    /\ dlast' = "into_static"
    /\ dn' = IF r.st = "ok" THEN dn + 1 ELSE dn
    /\ dunreach' = (dunreach \/ (r.st = "panic" /\ ~dpsd.image_data.raw_data.some
                                   /\ RawOfOwned(dpsd.image_data)))

\* psd.into_static(): the owner holds the detached Psd.
DetachIntoStatic ==
    /\ dst = "live"
    /\ dops < MaxOps
    /\ DetachedTo(Psd_into_static(dpsd))

DetachNext ==
    \/ DetachParse
    \/ DetachImageRawData
    \/ DetachChannelRawData
    \/ DetachIntoStatic

SpecDetach == DetachInit /\ [][DetachNext]_vars

\* The channels of a tree node and of the nodes below it: channel_info and
\* the three mask slots of every record.
OptionChannels(opt) == IF opt.some THEN <<opt.v>> ELSE <<>>

RecordChannels(rec) ==
    rec.channel_info \o OptionChannels(rec.transparency_mask)
        \o OptionChannels(rec.user_supplied_layer_mask)
        \o OptionChannels(rec.real_user_supplied_layer_mask)

RECURSIVE NodeChannels(_)
NodeChannels(node) ==
    RecordChannels(node.record)
        \o Flatten([k \in 1..Len(node.children) |-> NodeChannels(node.children[k])])

\* Every ChannelInfo and the ImageData of a Psd.
PlaneHolders(psd) ==
    Flatten([k \in 1..Len(psd.layer_information.layer_info) |->
                NodeChannels(psd.layer_information.layer_info[k])])
        \o <<psd.image_data>>

\* C11: Detach is idempotent and observation-preserving.  Once into_static
\* has completed on the parsed Psd, into_static of the Psd the owner holds
\* returns an equal Psd, and every accessor (header, colour-mode bytes,
\* resource blocks, layer records, channel data and raw_data, image-data
\* raw_data) returns on it what it returns on the Psd as parsed.
C11_DetachIdempotentAndPreserving ==
    (dst = "live" /\ dn >= 1) =>
        /\ Psd_into_static(dpsd) = [st |-> "ok", val |-> dpsd]
        /\ ObservePsd(dpsd) = ObservePsd(dorig)

\* into_static has completed twice on a document with a resource block, a
\* folder with an RLE layer and a Raw layer, and RLE image data.
C11_Witness ==
    /\ dst = "live"
    /\ dn = 2
    /\ din.blocks = 1
    /\ din.plan = <<"bound", "rle", "leaf", "open">>
    /\ din.image = "RLE"

\* C12: after any sequence of raw_data and into_static calls, a ChannelInfo
\* or ImageData whose bytes are owned has its plane cache populated, and the
\* `Cow::Owned(_) => unreachable!()` branch of ImageData::raw_data has never
\* been executed.
C12_OwnedHasPlanes ==
    /\ ~dunreach
    /\ dpsd # <<>> =>
         \A k \in 1..Len(PlaneHolders(dpsd)) :
            PlaneHolders(dpsd)[k].owned => PlaneHolders(dpsd)[k].raw_data.some

\* raw_data has just returned on the detached Raw image data of a document
\* with layers.
C12_Witness ==
    /\ dst = "live"
    /\ dn >= 1
    /\ dlast = "image"
    /\ din.image = "Raw"
    /\ din.plan = <<"bound", "rle", "leaf", "open">>
    /\ dpsd.image_data.owned

\* parse_psd decides what the later calls act on: a document that does not
\* parse leaves no Psd to call raw_data or into_static on, in either build.
UnparsedHasNoPsd ==
    (dlast = "parse" /\ dst \notin {"start", "live"}) =>
        dst = "panic" /\ dpsd = <<>> /\ dn = 0

\* The layer whose rectangle overflows the i32 subtraction parses in a
\* release build and panics in a debug build.
WideLayerByBuild ==
    (dlast = "parse" /\ dst # "start" /\ din.plan = <<"wide">>) =>
        dst = (IF din.build = "release" THEN "live" ELSE "panic")

-----------------------------------------------------------------------------
(* parse_header on its own: 26-byte headers with every field drawn from    *)
(* values at and around its limits, cut short or followed by more bytes.   *)

\* The first 12 bytes: as they must be, or with the magic, the version or
\* a reserved byte changed.
HeaderPrefix(kind) ==
    CASE kind = "magic" -> <<56, 66, 80, 66>> \o U16(1) \o Zeros(6)
      [] kind = "version" -> Sig8BPS \o U16(2) \o Zeros(6)
      [] kind = "reserved" -> Sig8BPS \o U16(1) \o <<0, 0, 0, 0, 0, 1>>
      [] OTHER -> Sig8BPS \o U16(1) \o Zeros(6)

\* The input: the header fields, then cut to `length` bytes or followed by
\* the bytes 1, 2.
HeaderInput(f) ==
    LET bytes == HeaderPrefix(f.prefix) \o U16(f.channels) \o U32(f.height)
                    \o U32(f.width) \o U16(f.depth) \o U16(f.color_mode) \o <<1, 2>>
    IN  SubSeq(bytes, 1, f.length)

HeaderFields ==
    [prefix : {"good", "magic", "version", "reserved"},
     channels : {0, 1, 56, 57},
     height : {0, 1, 30000, 30001, 65537},
     width : {1, 30000, 30001},
     depth : {1, 8, 16, 32, 24},
     color_mode : 0..10,
     length : {25, 26, 28}]

HeaderInit ==
    /\ TreeIdle
    /\ RleIdle
    /\ MemIdle
    /\ CacheIdle
    /\ DetachIdle
    /\ \E f \in HeaderFields :
          /\ pin = f
          /\ pinput = HeaderInput(f)
    /\ pbuild = "release"
    /\ ppc = "call"
    /\ prest = pinput
    /\ pparts = <<>>
    /\ pout = [st |-> "run", rest |-> <<>>, vals |-> <<>>]

\* parse_header(input)
HeaderCall ==
    /\ ppc = "call"
    /\ pout' = parse_header(Start(pinput))
    /\ ppc' = "return"
    /\ prest' = pout'.rest
    /\ pparts' = pout'.vals
    /\ UNCHANGED <<pinput, pbuild, pin>>
    /\ UNCHANGED <<treeVars, rleVars, cacheVars, detachVars, envVars>>

HeaderNext == HeaderCall

SpecHeader == HeaderInit /\ [][HeaderNext]_vars

\* The discriminant of a ColorMode (enum ColorMode, `Bitmap = 0` ..).
ColorModeCode(color_mode) ==
    CASE color_mode = "Bitmap" -> 0
      [] color_mode = "Grayscale" -> 1
      [] color_mode = "Indexed" -> 2
      [] color_mode = "RGB" -> 3
      [] color_mode = "CMYK" -> 4
      [] color_mode = "Multichannel" -> 7
      [] color_mode = "Duotone" -> 8
      [] color_mode = "Lab" -> 9

\* The 16-bit and 32-bit big-endian values at offset i (from 1) of b.
U16At(b, i) == b[i] * 256 + b[i + 1]
U32At(b, i) == b[i] * 16777216 + b[i + 1] * 65536 + b[i + 2] * 256 + b[i + 3]

\* The constraints of the header on the first 26 bytes of b.
HeaderConstraints(b) ==
    /\ Len(b) >= 26
    /\ SubSeq(b, 1, 4) = <<56, 66, 80, 83>>
    /\ U16At(b, 5) = 1
    /\ \A i \in 7..12 : b[i] = 0
    /\ U16At(b, 13) \in 1..56
    /\ U32At(b, 15) \in 1..30000
    /\ U32At(b, 19) \in 1..30000
    /\ U16At(b, 23) \in {1, 8, 16, 32}
    /\ U16At(b, 25) \in {0, 1, 2, 3, 4, 7, 8, 9}

\* C13: parse_header succeeds if and only if the first 26 bytes satisfy the
\* header constraints (magic 8BPS, version 1, six zero bytes, channels in
\* 1..56, height and width in 1..30000, depth in {1, 8, 16, 32}, colour
\* mode in {0, 1, 2, 3, 4, 7, 8, 9}); a failure is an Err; on success
\* exactly 26 bytes are consumed and the fields are the big-endian values.
C13_HeaderAcceptedIffConstraints ==
    ppc = "return" =>
        /\ pout.st = (IF HeaderConstraints(pinput) THEN "ok" ELSE "err")
        /\ pout.st = "ok" =>
             /\ pout.rest = SubSeq(pinput, 27, Len(pinput))
             /\ Len(pout.vals) = 1
             /\ pout.vals[1].version = 1
             /\ pout.vals[1].channels = U16At(pinput, 13)
             /\ pout.vals[1].height = U32At(pinput, 15)
             /\ pout.vals[1].width = U32At(pinput, 19)
             /\ pout.vals[1].depth = U16At(pinput, 23)
             /\ ColorModeCode(pout.vals[1].color_mode) = U16At(pinput, 25)

\* parse_header has accepted a header of 56 channels, 30000 x 30000, depth
\* 32, Lab, followed by two more bytes, and left those two bytes.
C13_Witness ==
    /\ ppc = "return"
    /\ pout.st = "ok"
    /\ pin.channels = 56 /\ pin.height = 30000 /\ pin.width = 30000
    /\ pin.depth = 32 /\ pin.color_mode = 9
    /\ pout.rest = <<1, 2>>

-----------------------------------------------------------------------------
(* parse_color_mode on its own: every colour mode of the header, declared  *)
(* lengths at and around 0 and 768, and more or fewer bytes than declared. *)

ColorModes ==
    {"Bitmap", "Grayscale", "Indexed", "RGB", "CMYK", "Multichannel", "Duotone", "Lab"}

\* Byte k of the colour-mode data of the inputs.
PaletteByte(k) == k % 251

\* The input: the declared length, then `held` bytes; or 2 bytes only.
ColorModeInput(f) ==
    IF f.held < 0 THEN <<0, 0>>
    ELSE U32(f.declared) \o [k \in 1..f.held |-> PaletteByte(k)]

ColorModeFields ==
    [color_mode : ColorModes,
     declared : {0, 1, 767, 768, 769},
     held : {-1, 0, 1, 766, 768, 770}]

ColorModeInit ==
    /\ TreeIdle
    /\ RleIdle
    /\ MemIdle
    /\ CacheIdle
    /\ DetachIdle
    /\ \E f \in ColorModeFields :
          /\ pin = f
          /\ pinput = ColorModeInput(f)
    /\ pbuild = "release"
    /\ ppc = "call"
    /\ prest = pinput
    /\ pparts = <<>>
    /\ pout = [st |-> "run", rest |-> <<>>, vals |-> <<>>]

\* parse_color_mode(input, &header), for a header of the colour mode.
ColorModeCall ==
    /\ ppc = "call"
    /\ pout' = parse_color_mode([st |-> "ok", rest |-> pinput,
                                 vals |-> <<PsdHeader(3, 1, 1, 8, pin.color_mode)>>])
    /\ ppc' = "return"
    /\ prest' = pout'.rest
    /\ pparts' = pout'.vals
    /\ UNCHANGED <<pinput, pbuild, pin>>
    /\ UNCHANGED <<treeVars, rleVars, cacheVars, detachVars, envVars>>

ColorModeNext == ColorModeCall

SpecColorMode == ColorModeInit /\ [][ColorModeNext]_vars

\* The declared length N is one the colour mode allows.
LengthAllowed(color_mode, n) ==
    CASE color_mode = "Indexed" -> n = 768
      [] color_mode = "Duotone" -> TRUE
      [] OTHER -> n = 0

\* C14: parse_color_mode reads a u32 length N and N bytes and accepts N
\* only as the colour mode allows: Indexed requires N = 768, Duotone accepts
\* any N, every other colour mode requires N = 0.  With an allowed N and N
\* bytes held the data is those N bytes and the input left starts after
\* them; any other N, or fewer bytes than N, is an Err with no data.
C14_ColorModeLengthByMode ==
    ppc = "return" =>
        IF pin.held >= 0 /\ LengthAllowed(pin.color_mode, pin.declared)
              /\ pin.held >= pin.declared
        THEN /\ pout.st = "ok"
             /\ pout.vals[2] = SubSeq(pinput, 5, 4 + pin.declared)
             /\ pout.rest = SubSeq(pinput, 5 + pin.declared, Len(pinput))
        ELSE /\ pout.st = "err"
             /\ pout.vals = <<>>

\* parse_color_mode has returned the 768 palette bytes of an Indexed
\* document and left the two bytes after them.
C14_Witness ==
    /\ ppc = "return"
    /\ pin.color_mode = "Indexed"
    /\ pout.st = "ok"
    /\ Len(pout.vals[2]) = 768
    /\ Len(pout.rest) = 2

-----------------------------------------------------------------------------
(* parse_image_resources on its own, one loop iteration at a time: frames  *)
(* of up to MaxResBlocks blocks with names and data of even and odd        *)
(* lengths, as a writer pads them, and frames damaged in the padding.      *)
(* Sections and data of up to 2^32 - 1 bytes, which cannot be written out  *)
(* byte by byte, are run by their lengths: see BlockAtLengths.             *)

MaxResBlocks == 2
MaxNameLen == 3

\* The name lengths of the blocks: short names, and the longest two.
ResNameLens == (0..MaxNameLen) \cup {254, 255}

\* The data lengths of the blocks.
ResDataLens == {0, 1, 2, 5, 255, 256}

\* Block k of a frame: name of n bytes, data of d bytes.
ResBlock(k, n, d) ==
    ResourceBlockBytes(1000 + k, [j \in 1..n |-> (96 + j) % 256],
                       [j \in 1..d |-> (16 * k + j) % 256], "none")

\* The blocks of a frame, as written.
ResBody(shape) == Flatten([k \in 1..Len(shape) |-> ResBlock(k, shape[k][1], shape[k][2])])

\* The frame: the body as written, with its last byte missing, followed by
\* one more byte inside the frame, or with the last byte of the first
\* signature changed.
ResFrame(shape, damage) ==
    CASE damage = "short" -> SubSeq(ResBody(shape), 1, Len(ResBody(shape)) - 1)
      [] damage = "long" -> ResBody(shape) \o <<0>>
      [] damage = "signature" -> [ResBody(shape) EXCEPT ![4] = 78]
      [] OTHER -> ResBody(shape)

\* The section: the length of the frame, the frame, and what follows it.
ResInput(shape, damage, follow) ==
    U32(Len(ResFrame(shape, damage))) \o ResFrame(shape, damage) \o follow

\* The frames: every frame of short blocks, and the frames of one long
\* block alone, before a short block and after one.
ResShapes ==
    UNION { [1..n -> (0..MaxNameLen) \X {0, 1, 2, 5}] : n \in 0..MaxResBlocks }
    \cup { <<b>> : b \in ResNameLens \X ResDataLens }
    \cup { <<b, <<1, 1>>>> : b \in {254, 255} \X {255, 256} }
    \cup { <<<<0, 2>>, b>> : b \in {254, 255} \X {255, 256} }

\* Lengths as halves: hi * 65536 + lo, with lo in 0..65535 (a usize, hi is
\* not bounded by 65535).  a <= b, a + k and a - k for a small k <= a.
HalvesLeq(a, b) == a.hi < b.hi \/ (a.hi = b.hi /\ a.lo <= b.lo)
HalvesPlus(a, k) ==
    IF a.lo + k < 65536 THEN [hi |-> a.hi, lo |-> a.lo + k]
    ELSE [hi |-> a.hi + 1, lo |-> a.lo + k - 65536]
HalvesMinus(a, k) ==
    IF a.lo >= k THEN [hi |-> a.hi, lo |-> a.lo - k]
    ELSE [hi |-> a.hi - 1, lo |-> a.lo + 65536 - k]

\* a - b for b <= a.
HalvesDiff(a, b) ==
    IF a.lo >= b.lo THEN [hi |-> a.hi - b.hi, lo |-> a.lo - b.lo]
    ELSE [hi |-> a.hi - b.hi - 1, lo |-> a.lo + 65536 - b.lo]

\* The outcome of a block by lengths: [st, rest, vals], rest the length of
\* what is left and vals the advance of the cursor.
LengthsOutcome(st, rest, advance) == [st |-> st, rest |-> rest, vals |-> <<advance>>]

\* The end of parse_image_resource_block on `left` bytes after the data_len
\* field, data_len being d and adv the [st, val] of (data_len + 1) & !1:
\* &input[adv..] and &input[..data_len] panic when they are out of range.
BlockDataAtLengths(len, left, d, adv) ==
    IF adv.st # "ok" THEN LengthsOutcome("panic", Halves(0), Halves(0))
    ELSE IF ~HalvesLeq(adv.val, left) \/ ~HalvesLeq(d, left)
    THEN LengthsOutcome("panic", Halves(0), Halves(0))
    ELSE LengthsOutcome("ok", HalvesDiff(left, adv.val),
                        HalvesDiff(len, HalvesDiff(left, adv.val)))

\* parse_image_resource_block on an input of len bytes that holds, as far as
\* it reaches, the signature, an id, the name length n, the name with its
\* padding and the data length d (the halves of a u32): tag, be_u16 and
\* be_u8 take 7 bytes, the name slices n | 1, be_u32 takes 4.
BlockAtLengths(len, n, d, build) ==
    IF ~HalvesLeq(Halves(7), len) THEN LengthsOutcome("err", Halves(0), Halves(0))
    ELSE IF ~HalvesLeq(Halves(7 + OrOne(n)), len)
    THEN LengthsOutcome("panic", Halves(0), Halves(0))
    ELSE IF ~HalvesLeq(Halves(7 + OrOne(n) + 4), len)
    THEN LengthsOutcome("err", Halves(0), Halves(0))
    ELSE BlockDataAtLengths(len, HalvesMinus(len, 7 + OrOne(n) + 4), d,
                            RoundUpEvenU32(d, build))

\* The declared lengths N of the sections run by their lengths, up to the
\* largest u32.
WideSections ==
    { Halves(6), Halves(12), Halves(19), Halves(300), Halves(65536),
      [hi |-> 65535, lo |-> 65520], [hi |-> 65535, lo |-> 65534],
      [hi |-> 65535, lo |-> 65535] }

\* The data lengths of their first block: small ones, the largest three of
\* a u32, and the lengths about the one that fills the section.
WideDataLens(N, n) ==
    { Halves(0), Halves(1), Halves(5), Halves(65535), Halves(65536),
      [hi |-> 65535, lo |-> 65533], [hi |-> 65535, lo |-> 65534],
      [hi |-> 65535, lo |-> 65535] }
    \cup (IF HalvesLeq(Halves(7 + OrOne(n) + 4 + 2), N)
          THEN { HalvesMinus(N, 7 + OrOne(n) + 4 + k) : k \in 0..2 }
          ELSE {})

ResourcesInit ==
    /\ TreeIdle
    /\ RleIdle
    /\ MemIdle
    /\ CacheIdle
    /\ DetachIdle
    /\ \/ \E shape \in ResShapes : \E damage \in {"none", "short", "long", "signature"} :
          \E follow \in {<<>>, <<56, 66>>} :
             /\ damage \in {"short", "signature"} => Len(shape) >= 1
             /\ pin = [shape |-> shape, damage |-> damage, follow |-> follow,
                       section |-> Halves(0), name_len |-> 0, data_len |-> Halves(0)]
             /\ pinput = ResInput(shape, damage, follow)
             /\ ppc = "call"
       \/ \E N \in WideSections : \E n \in 0..255 : \E d \in WideDataLens(N, n) :
             /\ pin = [shape |-> <<>>, damage |-> "none", follow |-> <<>>,
                       section |-> N, name_len |-> n, data_len |-> d]
             /\ pinput = <<>>
             /\ ppc = "lengths"
    /\ pbuild \in {"debug", "release"}
    /\ prest = <<>>
    /\ pparts = [resources |-> <<>>, advances |-> <<>>, follow |-> <<>>]
    /\ pout = [st |-> "run", rest |-> <<>>, vals |-> <<>>]

\* The call returns r.
ResourcesReturns(r) ==
    /\ ppc' = "return"
    /\ pout' = r
    /\ UNCHANGED <<prest, pparts>>

\* let (input, len) = be_u32(input)?; let mut resources = Vec::new();
\* let mut blocks_input = &input[..len as usize];
ResourcesFramed(r) ==
    /\ ppc = "call"
    /\ IF r.st # "ok" THEN ResourcesReturns(Fail(r))
       ELSE /\ ppc' = "loop"
            /\ prest' = Last(r)
            /\ pparts' = [resources |-> <<>>, advances |-> <<>>, follow |-> r.rest]
            /\ pout' = pout
    /\ UNCHANGED <<pinput, pbuild, pin>>
    /\ UNCHANGED <<treeVars, rleVars, cacheVars, detachVars, envVars>>

ResourcesLen == ResourcesFramed(slice_len(be_u32(Start(pinput))))

\* One iteration of `while !blocks_input.is_empty()`, r the outcome of
\* parse_image_resource_block(blocks_input)?.
ResourcesPushed(r) ==
    /\ ppc = "loop"
    /\ prest # <<>>
    /\ IF r.st # "ok" THEN ResourcesReturns(Fail(r))
       ELSE /\ ppc' = "loop"
            /\ prest' = r.rest
            /\ pparts' = [pparts EXCEPT !.resources = Append(@, Last(r)),
                                        !.advances = Append(@, Len(prest) - Len(r.rest))]
            /\ pout' = pout
    /\ UNCHANGED <<pinput, pbuild, pin>>
    /\ UNCHANGED <<treeVars, rleVars, cacheVars, detachVars, envVars>>

ResourcesBlock == ResourcesPushed(parse_image_resource_block(Start(prest), pbuild))

\* The loop left after its first iteration (variant).
ResourcesOkEarly ==
    /\ ppc = "loop"
    /\ prest = <<>> \/ Len(pparts.resources) >= 1
    /\ ResourcesReturns([st |-> "ok", rest |-> pparts.follow, vals |-> <<pparts.resources>>])
    /\ UNCHANGED <<pinput, pbuild, pin>>
    /\ UNCHANGED <<treeVars, rleVars, cacheVars, detachVars, envVars>>

\* Ok((&input[len as usize..], ImageResources(resources)))
ResourcesOk ==
    /\ ppc = "loop"
    /\ prest = <<>>
    /\ ResourcesReturns([st |-> "ok", rest |-> pparts.follow, vals |-> <<pparts.resources>>])
    /\ UNCHANGED <<pinput, pbuild, pin>>
    /\ UNCHANGED <<treeVars, rleVars, cacheVars, detachVars, envVars>>

\* The first turn of the loop on a section of pin.section bytes, by
\* lengths: parse_image_resource_block(blocks_input) on the block that the
\* section starts with.
ResourcesLengths ==
    /\ ppc = "lengths"
    /\ ppc' = "lengths_return"
    /\ pout' = BlockAtLengths(pin.section, pin.name_len, pin.data_len, pbuild)
    /\ UNCHANGED <<pinput, pbuild, prest, pparts, pin>>
    /\ UNCHANGED <<treeVars, rleVars, cacheVars, detachVars, envVars>>

ResourcesNext ==
    \/ ResourcesLen
    \/ ResourcesBlock
    \/ ResourcesOk
    \/ ResourcesLengths

SpecResources == ResourcesInit /\ [][ResourcesNext]_vars

\* The iterations give what parse_image_resources gives.
ResourcesStepsAgree ==
    ppc = "return" => pout = parse_image_resources(Start(pinput), pbuild)

RECURSIVE SumSeq(_)
SumSeq(xs) == IF xs = <<>> THEN 0 ELSE xs[1] + SumSeq(SubSeq(xs, 2, Len(xs)))

\* round_up_even(x): x when it is even, the next number when it is odd; for
\* a small x, and for a length in halves.
round_up_even(x) == IF x % 2 = 0 THEN x ELSE x + 1
RoundUpEvenHalves(x) == IF x.lo % 2 = 0 THEN x ELSE HalvesPlus(x, 1)

\* The largest u32, 0xFFFFFFFF.
MaxU32Halves == [hi |-> 65535, lo |-> 65535]

\* The block by lengths gives what the parser gives on the bytes: the
\* outcome, the bytes left and the advance, for every block parsed alone.
LengthsAgreeWithBytes ==
    (ppc = "loop" /\ prest # <<>> /\ Len(pparts.resources) < Len(pin.shape)) =>
        LET r == parse_image_resource_block(Start(prest), pbuild)
            n == pin.shape[Len(pparts.resources) + 1][1]
            d == pin.shape[Len(pparts.resources) + 1][2]
            l == BlockAtLengths(Halves(Len(prest)), n, Halves(d), pbuild)
        IN  (pin.damage # "signature" \/ pparts.resources # <<>>) =>
               /\ l.st = r.st
               /\ r.st = "ok" =>
                     /\ l.rest = Halves(Len(r.rest))
                     /\ l.vals[1] = Halves(Len(prest) - Len(r.rest))

\* The u32 expression of the code against round_up_even, for every data
\* length run: they agree but at 0xFFFFFFFF, where the code panics or gets
\* 0 and round_up_even is 2^32.
RoundUpAgreesBelowMax ==
    ppc \in {"lengths", "lengths_return"} =>
        IF pin.data_len = MaxU32Halves
        THEN RoundUpEvenU32(pin.data_len, pbuild)
               = (IF pbuild = "debug" THEN [st |-> "panic", val |-> Halves(0)]
                  ELSE [st |-> "ok", val |-> Halves(0)])
        ELSE RoundUpEvenU32(pin.data_len, pbuild)
               = [st |-> "ok", val |-> RoundUpEvenHalves(pin.data_len)]

\* A block of data length 0xFFFFFFFF never parses: the section has at most
\* 2^32 - 1 bytes, 11 of them and the name before the data, so the slice of
\* data_len bytes is out of range where the sum has wrapped.
MaxDataLenNeverParses ==
    (ppc = "lengths_return" /\ pin.data_len = MaxU32Halves) =>
        pout.st = (IF HalvesLeq(Halves(7), pin.section)
                      /\ ~HalvesLeq(Halves(7 + OrOne(pin.name_len)), pin.section)
                   THEN "panic"
                   ELSE IF ~HalvesLeq(Halves(7 + OrOne(pin.name_len) + 4), pin.section)
                   THEN "err" ELSE "panic")

\* The declared section length N of the input.
ResDeclared == U32At(pinput, 1)

\* C15: whenever parse_image_resources succeeds, each block advanced the
\* cursor by 4 + 2 + 1 + (name_len | 1) + 4 + ((data_len + 1) & ~1) bytes,
\* which is 4 + 2 + round_up_even(1 + name_len) + 4 + round_up_even(data_len);
\* the advances add up to the declared section length N and the cursor is
\* left N bytes after the length field.
\* For the sections run by their lengths (name_len 0..255, data_len up to
\* 0xFFFFFFFF, N up to 0xFFFFFFFF): whenever the block parses, data_len is
\* not 0xFFFFFFFF, the u32 sum has not wrapped, the advance is both
\* expressions and it stays within the N bytes of the section.
C15_BlockAdvanceAndSum ==
    /\ (ppc = "return" /\ pout.st = "ok") =>
        /\ Len(pparts.advances) = Len(pout.vals[1])
        /\ \A k \in 1..Len(pparts.advances) :
              LET name_len == Len(pout.vals[1][k].name)
                  data_len == Len(pout.vals[1][k].resource_data)
              IN  /\ pparts.advances[k]
                       = 4 + 2 + 1 + BitOr(name_len, 1) + 4
                           + HalvesValue(AndNotOneU32(Halves(data_len + 1)))
                  /\ pparts.advances[k]
                       = 4 + 2 + round_up_even(1 + name_len) + 4 + round_up_even(data_len)
        /\ SumSeq(pparts.advances) = ResDeclared
        /\ pout.rest = SubSeq(pinput, 4 + ResDeclared + 1, Len(pinput))
    /\ (ppc = "lengths_return" /\ pout.st = "ok") =>
        /\ pin.data_len # MaxU32Halves
        /\ pout.vals[1]
              = HalvesPlus(AndNotOneU32(HalvesPlus(pin.data_len, 1)),
                           4 + 2 + 1 + BitOr(pin.name_len, 1) + 4)
        /\ pout.vals[1]
              = HalvesPlus(RoundUpEvenHalves(pin.data_len),
                           4 + 2 + round_up_even(1 + pin.name_len) + 4)
        /\ HalvesLeq(pout.vals[1], pin.section)
        /\ pout.rest = HalvesDiff(pin.section, pout.vals[1])

\* parse_image_resources has returned two blocks, the first with a name of
\* 2 bytes and data of 5 bytes (both padded), the second with a name of 3
\* bytes and no data, and has left the two bytes after the section.
C15_Witness ==
    /\ ppc = "return"
    /\ pout.st = "ok"
    /\ pin.shape = <<<<2, 5>>, <<3, 0>>>>
    /\ pparts.advances = <<20, 14>>
    /\ pout.rest = <<56, 66>>

-----------------------------------------------------------------------------
(* parse_layer_info on its own: sub-frames holding the layer count, the    *)
(* records and the channel blobs of a layer list, and `slack` more bytes   *)
(* inside the declared length L1.                                          *)

MaxSlack == 2

\* The sub-frame: the count (negative when the first alpha channel holds
\* the transparency of the merged result), records, blobs and the slack.
LayerInfoFrame(plan, sign, slack) ==
    I16(sign * Len(plan))
        \o Flatten([k \in 1..Len(plan) |-> DocLayerRecord(plan[k], "none")])
        \o Flatten([k \in 1..Len(plan) |-> DocLayerBlobs(plan[k])])
        \o [k \in 1..slack |-> 0]

\* The input: L1, the sub-frame and what follows it.
LayerInfoInput(plan, sign, slack, follow) ==
    U32(Len(LayerInfoFrame(plan, sign, slack))) \o LayerInfoFrame(plan, sign, slack) \o follow

LayerInfoPlans ==
    { <<>>, <<"leaf">>, <<"rle">>, <<"bound", "leaf", "open">>,
      <<"leaf", "bound", "zip", "closed">>, <<"bound", "rle", "leaf", "open">> }

LayerInfoInit ==
    /\ TreeIdle
    /\ RleIdle
    /\ MemIdle
    /\ CacheIdle
    /\ DetachIdle
    /\ \E plan \in LayerInfoPlans : \E sign \in {1, -1} : \E slack \in 0..MaxSlack :
       \E follow \in {<<>>, <<0, 0, 0, 0>>} :
          /\ pin = [plan |-> plan, sign |-> sign, slack |-> slack, follow |-> follow]
          /\ pinput = LayerInfoInput(plan, sign, slack, follow)
    /\ pbuild \in {"debug", "release"}
    /\ ppc = "call"
    /\ prest = pinput
    /\ pparts = <<>>
    /\ pout = [st |-> "run", rest |-> <<>>, vals |-> <<>>]

\* parse_layer_info(input)
LayerInfoCall ==
    /\ ppc = "call"
    /\ pout' = parse_layer_info(Start(pinput), pbuild)
    /\ ppc' = "return"
    /\ prest' = pout'.rest
    /\ pparts' = pout'.vals
    /\ UNCHANGED <<pinput, pbuild, pin>>
    /\ UNCHANGED <<treeVars, rleVars, cacheVars, detachVars, envVars>>

LayerInfoNext == LayerInfoCall

SpecLayerInfo == LayerInfoInit /\ [][LayerInfoNext]_vars

\* What parse_layer_info does with bytes left in the sub-frame: it returns
\* the layer tree of the sub-frame without them, and the input after L1.
LeftoverIsDropped ==
    ppc = "return" =>
        /\ pout.st = "ok"
        /\ pout.rest = pin.follow
        /\ pout.vals = parse_layer_info(
               Start(LayerInfoInput(pin.plan, pin.sign, 0, pin.follow)), pbuild).vals

\* C16 (as the spec states it): when bytes remain inside the sub-frame after
\* the layer count, the records and the channel blobs, parse_layer_info
\* fails with a parse error instead of returning a layer tree.
C16_LeftoverIsParseError ==
    (ppc = "return" /\ pin.slack > 0) => pout.st = "err"

-----------------------------------------------------------------------------
(* parse_layer_record on its own: records with 0 or 2 channels, mask data  *)
(* of several lengths, blending ranges, names of 0..MaxLayerName bytes and *)
(* additional-info blocks, the extra-data length L2 stating the length of  *)
(* what was written, one byte less or one byte more.                       *)

MaxLayerName == 5

\* The layer mask data: none, the 20-byte form, the 36-byte form, and 40
\* bytes (the 36-byte form and 4 more).
RecordMaskLens == {0, 20, 36, 40}

RecordMask(m) ==
    IF m = 0 THEN <<>>
    ELSE I32(0) \o I32(0) \o I32(1) \o I32(1) \o <<255, 0>>
           \o (IF m = 20 THEN <<0, 0>>
               ELSE <<0, 255>> \o I32(0) \o I32(0) \o I32(1) \o I32(1) \o Zeros(m - 36))

\* One additional-info block: signature, key, length and payload.
RecordInfoKinds == {"type", "blend", "sub", "unknown", "empty"}

RecordInfo(kind) ==
    CASE kind = "type" -> Sig8BIM \o KeyLsct \o U32(4) \o U32(1)
      [] kind = "blend" -> Sig8BIM \o KeyLsct \o U32(12) \o U32(2) \o Sig8BIM
                             \o <<110, 111, 114, 109>>
      [] kind = "sub" -> Sig8BIM \o KeyLsct \o U32(16) \o U32(3) \o Sig8BIM
                           \o <<110, 111, 114, 109>> \o U32(0)
      [] kind = "unknown" -> Sig8B64 \o <<108, 117, 110, 105>> \o U32(3) \o <<1, 2, 3>>
      [] OTHER -> Sig8BIM \o <<108, 117, 110, 105>> \o U32(0)

RecordInfoLists ==
    { <<>>, <<"type">>, <<"blend">>, <<"sub">>, <<"unknown">>, <<"empty", "type">>,
      <<"unknown", "sub">> }

\* The extra data as a writer lays it out: mask data, blending ranges, the
\* name padded with its length byte to a multiple of 4, the blocks.
RecordExtra(f) ==
    U32(f.mask) \o RecordMask(f.mask)
        \o U32(f.blend) \o [k \in 1..f.blend |-> 200 + k]
        \o <<f.name>> \o [k \in 1..f.name |-> 64 + k]
        \o Zeros((4 - ((1 + f.name) % 4)) % 4)
        \o Flatten([k \in 1..Len(f.infos) |-> RecordInfo(f.infos[k])])

\* The record up to the extra-data length: rectangle, channel table, blend
\* mode signature and key, opacity, clipping, flags, filler.
RecordHead(channels) ==
    I32(0) \o I32(0) \o I32(1) \o I32(1) \o U16(channels)
        \o Flatten([k \in 1..channels |-> I16(k - 2) \o U32(3)])
        \o Sig8BIM \o <<110, 111, 114, 109>> \o <<255, 0, 8, 0>>

\* The input: the record with L2 = the length of the extra data + delta,
\* a zero byte more for delta = 1, and what follows the record.
RecordInput(f) ==
    RecordHead(f.channels) \o U32(Len(RecordExtra(f)) + f.delta) \o RecordExtra(f)
        \o Zeros(IF f.delta = 1 THEN 1 ELSE 0) \o f.follow

RecordFields ==
    [channels : {0, 2}, mask : RecordMaskLens, blend : {0, 8}, name : 0..MaxLayerName,
     infos : RecordInfoLists, delta : {-1, 0, 1}, follow : {<<>>, <<9>>}]

RecordInit ==
    /\ TreeIdle
    /\ RleIdle
    /\ MemIdle
    /\ CacheIdle
    /\ DetachIdle
    /\ \E f \in RecordFields :
          /\ pin = f
          /\ pinput = RecordInput(f)
    /\ pbuild = "release"
    /\ ppc = "call"
    /\ prest = pinput
    /\ pparts = <<>>
    /\ pout = [st |-> "run", rest |-> <<>>, vals |-> <<>>]

\* parse_layer_record(input)
RecordCall ==
    /\ ppc = "call"
    /\ pout' = parse_layer_record(Start(pinput), pbuild)
    /\ ppc' = "return"
    /\ prest' = pout'.rest
    /\ pparts' = pout'.vals
    /\ UNCHANGED <<pinput, pbuild, pin>>
    /\ UNCHANGED <<treeVars, rleVars, cacheVars, detachVars, envVars>>

RecordNext == RecordCall

SpecLayerRecord == RecordInit /\ [][RecordNext]_vars

\* Where the L2 field of the input is, and L2.
RecordL2At == Len(RecordHead(pin.channels)) + 1
RecordL2 == U32At(pinput, RecordL2At)

\* What the parser read inside the L2 bytes: the values of the steps from
\* layer_mask_data_len to the additional layer information.
RecordRead ==
    LayerNameAndInfo(parse_layer_mask_data(take_len(be_u32(
        Start(SubSeq(pinput, RecordL2At + 4, RecordL2At + 3 + RecordL2))))))

\* The payload length D of an additional-info block that was read.
InfoPayloadLen(info) ==
    CASE info.kind = "Unknown" -> Len(info.data)
      [] info.sub_type.some -> 16
      [] info.key.some -> 12
      [] OTHER -> 4

\* The smallest multiple of 4 that is >= x.
CeilTo4(x) == CHOOSE m \in x..(x + 3) : m % 4 = 0

\* C17: whenever parse_layer_record succeeds, L2 = (4 + M) + (4 + B)
\* + (1 + L + 3 - (L mod 4)) + the sum over the additional-info blocks of
\* (12 + D), with M, B, L, D the mask-data, blending-ranges, layer-name and
\* block payload lengths read; the padded name region is the smallest
\* multiple of 4 that is >= 1 + L; and the input left starts L2 bytes after
\* the L2 field.
C17_ExtraLengthAccounted ==
    (ppc = "return" /\ pout.st = "ok") =>
        LET M == RecordRead.vals[1]
            B == RecordRead.vals[4]
            L == RecordRead.vals[6]
            infos == RecordRead.vals[8]
        IN  /\ RecordRead.st = "ok"
            /\ B = Len(pout.vals[1].layer_blending_ranges_data)
            /\ L = Len(pout.vals[1].layer_name)
            /\ infos = pout.vals[1].additional_layer_info
            /\ RecordL2 = (4 + M) + (4 + B) + (1 + L + 3 - (L % 4))
                            + SumSeq([k \in 1..Len(infos) |-> 12 + InfoPayloadLen(infos[k])])
            /\ 1 + L + 3 - (L % 4) = CeilTo4(1 + L)
            /\ pout.rest = SubSeq(pinput, RecordL2At + 4 + RecordL2, Len(pinput))

\* parse_layer_record has read a record with 36 bytes of mask data, 8 bytes
\* of blending ranges, a name of 5 bytes (padded to 8 with its length) and
\* two blocks, and has left the byte after the record.
C17_Witness ==
    /\ ppc = "return"
    /\ pout.st = "ok"
    /\ pin.mask = 36 /\ pin.blend = 8 /\ pin.name = 5
    /\ pin.infos = <<"unknown", "sub">>
    /\ RecordL2 = 40 + 12 + 8 + 15 + 28
    /\ pout.rest = <<9>>

-----------------------------------------------------------------------------
(* The planes of the composite image data (under SpecRle).                 *)

\* ImageData::raw_data has returned the planes.
ImagePlanesReturned ==
    rpc = "done" /\ rch.kind = "image" /\ rout.st = "ok"

\* RLE: the planes returned are header.channels planes of width * height
\* bytes.
RlePlanesMatchHeader ==
    (ImagePlanesReturned /\ rch.compression = "RLE") =>
        /\ Len(rout.value) = rch.channels
        /\ \A k \in 1..Len(rout.value) : Len(rout.value[k]) = rch.width * rch.height

\* Raw: the planes returned are the consecutive chunks of width * height
\* bytes of the payload, as many as the payload holds.
RawPlanesFollowPayload ==
    (ImagePlanesReturned /\ rch.compression = "Raw") =>
        /\ Len(rout.value) * (rch.width * rch.height) = Len(rch.data)
        /\ \A k \in 1..Len(rout.value) :
              rout.value[k] = SubSeq(rch.data, (k - 1) * rch.width * rch.height + 1,
                                     k * rch.width * rch.height)

\* Raw: a payload that is no multiple of width * height bytes ends in a
\* panic of split_at.
RawUnevenPayloadPanics ==
    (rpc = "done" /\ rch.kind = "image" /\ rch.compression = "Raw"
        /\ Len(rch.data) % (rch.width * rch.height) # 0) => rout.st = "panic"

\* C18 (as the spec states it): for Raw and RLE composite image data,
\* ImageData::raw_data returns exactly header.channels planes, each of
\* exactly width * height bytes.
C18_PlanesMatchHeader ==
    (ImagePlanesReturned /\ rch.compression \in {"Raw", "RLE"}) =>
        /\ Len(rout.value) = rch.channels
        /\ \A k \in 1..Len(rout.value) : Len(rout.value[k]) = rch.width * rch.height

-----------------------------------------------------------------------------
(* Layers with several section-divider infos (under SpecTree).             *)

\* The first section-divider info of a layer, by its place in the
\* additional-info list; 0 when the layer has none.
FirstDividerInfo(layer) ==
    LET infos == layer.additional_layer_info
        at == {k \in 1..Len(infos) : infos[k].kind = "SectionDivider"}
    IN  IF at = {} THEN 0 ELSE Min(at)

\* The first section-divider info of the layer has type AnyOtherType.
FirstIsAnyOtherType(layer) ==
    /\ FirstDividerInfo(layer) # 0
    /\ layer.additional_layer_info[FirstDividerInfo(layer)].section_divider_type
          = "AnyOtherType"

\* The first section-divider info of the layer is a group marker.
FirstIsMarker(layer) ==
    /\ FirstDividerInfo(layer) # 0
    /\ ~FirstIsAnyOtherType(layer)

\* A layer whose first section-divider info is a group marker is classified
\* by it, whatever follows; one whose infos are AnyOtherType up to a group
\* marker is classified by that marker.
FirstMarkerDecides ==
    \A k \in 1..Len(layers) :
        /\ FirstIsMarker(layers[k]) =>
              Divider(layers[k]) =
                 DividerOfInfo(layers[k].additional_layer_info[FirstDividerInfo(layers[k])])
        /\ layers[k].additional_layer_info
              = <<SectionDivider("AnyOtherType"), SectionDivider("BoundingSectionDivider")>>
              => Divider(layers[k]) = "Start"

\* C19 (as the spec states it): a layer whose first section-divider info
\* has type AnyOtherType becomes a Leaf of the tree, even when a later info
\* is a group marker.
C19_FirstInfoDecides ==
    tout.st = "ok" =>
        \A k \in 1..Len(layers) :
            FirstIsAnyOtherType(layers[k]) =>
                \E j \in 1..Len(LeavesOf(tout.tree)) : LeavesOf(tout.tree)[j] = layers[k]

-----------------------------------------------------------------------------
(* sort_channel_data on its own: one layer record whose channel table      *)
(* declares up to MaxSortChannels channels with ids from -5 to 2 in any    *)
(* order (repeats included), read with its channel blobs, then normalized. *)

MaxSortChannels == 3

SortIds == {-5, -4, -3, -2, -1, 0, 1, 2}

\* The compression code and the payload of the blob of declared channel k.
SortBlobCode(k) == k % 2
SortBlobPayload(k) == <<100 + k>>

\* The sub-frame of one record: count 1, the record with the channel table
\* of the ids and mask data of `mask` bytes, an empty name, and the blobs.
SortFrame(ids, mask) ==
    I16(1)
      \o I32(0) \o I32(0) \o I32(1) \o I32(1) \o U16(Len(ids))
      \o Flatten([k \in 1..Len(ids) |-> I16(ids[k]) \o U32(3)])
      \o Sig8BIM \o <<110, 111, 114, 109>> \o <<255, 0, 8, 0>>
      \o U32(4 + mask + 4 + 4) \o U32(mask) \o RecordMask(mask) \o U32(0) \o Zeros(4)
      \o Flatten([k \in 1..Len(ids) |-> U16(SortBlobCode(k)) \o SortBlobPayload(k)])

SortIdLists == UNION { [1..n -> SortIds] : n \in 0..MaxSortChannels }

SortInit ==
    /\ TreeIdle
    /\ RleIdle
    /\ MemIdle
    /\ CacheIdle
    /\ DetachIdle
    /\ \E ids \in SortIdLists : \E mask \in {0, 20, 36} :
          /\ pin = [ids |-> ids, mask |-> mask]
          /\ pinput = SortFrame(ids, mask)
    /\ pbuild \in {"debug", "release"}
    /\ ppc = "read"
    /\ prest = pinput
    /\ pparts = <<>>
    /\ pout = [st |-> "run", val |-> <<>>]

\* parse_layer_info up to the call of sort_channel_data: the layer count,
\* the records and parse_channel_image_data gave r.
SortRecordsRead(r) ==
    /\ ppc = "read"
    /\ ppc' = IF r.st = "ok" THEN "sort" ELSE "return"
    /\ pparts' = IF r.st = "ok" THEN Last(r) ELSE <<>>
    /\ prest' = r.rest
    /\ pout' = IF r.st = "ok" THEN pout ELSE [st |-> r.st, val |-> <<>>]
    /\ UNCHANGED <<pinput, pbuild, pin>>
    /\ UNCHANGED <<treeVars, rleVars, cacheVars, detachVars, envVars>>

SortRead ==
    SortRecordsRead(parse_channel_image_data(LayerRecords(be_i16(Start(pinput)), pbuild)))

\* sort_channel_data(&mut layer_records)
SortCall ==
    /\ ppc = "sort"
    /\ pout' = sort_channel_data(pparts, pbuild)
    /\ ppc' = "return"
    /\ UNCHANGED <<pinput, pbuild, prest, pparts, pin>>
    /\ UNCHANGED <<treeVars, rleVars, cacheVars, detachVars, envVars>>

SortNext == SortRead \/ SortCall

SpecSort == SortInit /\ [][SortNext]_vars

\* The channels a record holds: the list, then the three slots.
HeldChannels(rec) ==
    rec.channel_info \o OptionChannels(rec.transparency_mask)
        \o OptionChannels(rec.user_supplied_layer_mask)
        \o OptionChannels(rec.real_user_supplied_layer_mask)

\* The slot holds a channel of the id exactly when the ids declare one.
SlotHolds(opt, id, ids) ==
    /\ opt.some <=> (\E k \in 1..Len(ids) : ids[k] = id)
    /\ opt.some => opt.v.channel_id = id

\* C20: channel normalization only rearranges channels.  After
\* sort_channel_data the channel_info list holds the channels with id >= 0
\* sorted ascending by id, followed by the leftover channels with negative
\* ids; the transparency / user / real-user slots hold a channel with id
\* -1 / -2 / -3 exactly when the record declared one; and the list plus the
\* slots are exactly the declared channels, each with the compression code
\* and the payload read for it in declared order.
C20_NormalizationRearranges ==
    (ppc = "return" /\ pout.st = "ok") =>
        LET rec == pout.val[1]
            list == rec.channel_info
            colors == Cardinality({k \in 1..Len(pin.ids) : pin.ids[k] >= 0})
            held == HeldChannels(rec)
        IN  /\ \A j \in 1..Len(list) : (list[j].channel_id >= 0) <=> (j <= colors)
            /\ \A j \in 1..(colors - 1) : list[j].channel_id <= list[j + 1].channel_id
            /\ SlotHolds(rec.transparency_mask, -1, pin.ids)
            /\ SlotHolds(rec.user_supplied_layer_mask, -2, pin.ids)
            /\ SlotHolds(rec.real_user_supplied_layer_mask, -3, pin.ids)
            /\ Len(held) = Len(pin.ids)
            /\ \A k \in 1..Len(pin.ids) :
                  \E j \in 1..Len(held) :
                      /\ held[j].channel_id = pin.ids[k]
                      /\ held[j].data = SortBlobPayload(k)
                      /\ held[j].compression = ImageCompression_from_u16(SortBlobCode(k))
                      /\ held[j].channel_data_length = 3

\* sort_channel_data has returned for the channel table (-1, 2, 0) of a
\* record with mask data: the list is (0, 2) and the transparency slot
\* holds the first blob.
C20_Witness ==
    /\ ppc = "return"
    /\ pout.st = "ok"
    /\ pin.ids = <<-1, 2, 0>>
    /\ pin.mask = 20
    /\ Len(pout.val[1].channel_info) = 2
    /\ pout.val[1].channel_info[1].data = SortBlobPayload(3)
    /\ pout.val[1].channel_info[2].data = SortBlobPayload(2)
    /\ pout.val[1].transparency_mask = Some(pparts[1].channel_info[1])

-----------------------------------------------------------------------------
(* parse_layer_info on its own, one record at a time: sub-frames whose     *)
(* layer count is any of the counts below, holding up to MaxHeldRecords    *)
(* records and their channel blobs.                                        *)

MaxHeldRecords == 2

\* The layer counts: small ones of both signs, and the least i16.
LayerCounts == {-32768, -2, -1, 0, 1, 2}

\* The kinds of the records a sub-frame holds, by their number.
HeldPlan(n) == SubSeq(<<"leaf", "rle", "leaf">>, 1, n)

\* The input: L1 and the sub-frame of the count, n records and their blobs,
\* then what follows the sub-frame.
CountInput(count, n, follow) ==
    LET frame == I16(count)
                   \o Flatten([k \in 1..n |-> DocLayerRecord(HeldPlan(n)[k], "none")])
                   \o Flatten([k \in 1..n |-> DocLayerBlobs(HeldPlan(n)[k])])
    IN  U32(Len(frame)) \o frame \o follow

CountInit ==
    /\ TreeIdle
    /\ RleIdle
    /\ MemIdle
    /\ CacheIdle
    /\ DetachIdle
    /\ \E count \in LayerCounts : \E n \in 0..MaxHeldRecords :
       \E follow \in {<<>>, <<0, 0, 0, 0>>} :
          /\ pin = [count |-> count, held |-> n, follow |-> follow]
          /\ pinput = CountInput(count, n, follow)
    /\ pbuild \in {"debug", "release"}
    /\ ppc = "call"
    /\ prest = <<>>
    /\ pparts = [left |-> 0, layer_records |-> <<>>, follow |-> <<>>]
    /\ pout = [st |-> "run", rest |-> <<>>, vals |-> <<>>]

\* The call ends with r, an Err or a panic included.
CountReturns(r) ==
    /\ ppc' = "return"
    /\ pout' = r
    /\ UNCHANGED <<prest, pparts>>

\* let (input, len) = be_u32(input)?; let (follow, input) = take(len)(input)?;
\* let (mut input, layer_count) = be_i16(input)?; let mut layer_records =
\* Vec::new(); and the bound layer_count.abs() of the loop; follow is the
\* state after take, r the one after be_i16.
CountFramed(follow, r) ==
    /\ ppc = "call"
    /\ IF r.st # "ok" THEN CountReturns(Fail(r))
       ELSE IF LayerCountAbs(Last(r), pbuild).st # "ok" THEN CountReturns(PPanic)
       ELSE /\ ppc' = "records"
            /\ prest' = r.rest
            /\ pparts' = [left |-> LayerCountAbs(Last(r), pbuild).val,
                          layer_records |-> <<>>, follow |-> follow.rest]
            /\ pout' = pout
    /\ UNCHANGED <<pinput, pbuild, pin>>
    /\ UNCHANGED <<treeVars, rleVars, cacheVars, detachVars, envVars>>

CountRead ==
    CountFramed(take_len(be_u32(Start(pinput))),
                be_i16(Framed(take_len(be_u32(Start(pinput))))))

\* One iteration of `for _ in 0..layer_count.abs()`, r the outcome of
\* parse_layer_record(input)?.
CountPushed(r) ==
    /\ ppc = "records"
    /\ pparts.left > 0
    /\ IF r.st # "ok" THEN CountReturns(Fail(r))
       ELSE /\ ppc' = "records"
            /\ prest' = r.rest
            /\ pparts' = [pparts EXCEPT !.left = @ - 1,
                                        !.layer_records = Append(@, Last(r))]
            /\ pout' = pout
    /\ UNCHANGED <<pinput, pbuild, pin>>
    /\ UNCHANGED <<treeVars, rleVars, cacheVars, detachVars, envVars>>

CountRecord == CountPushed(parse_layer_record(Start(prest), pbuild))

\* The range 0..layer_count.abs() is used up (or empty): the channel image
\* data are read next.
CountLoopDone ==
    /\ ppc = "records"
    /\ pparts.left <= 0
    /\ ppc' = "channels"
    /\ UNCHANGED <<pinput, pbuild, prest, pparts, pout, pin>>
    /\ UNCHANGED <<treeVars, rleVars, cacheVars, detachVars, envVars>>

\* parse_channel_image_data, sort_channel_data, into_layer_tree and
\* Ok((follow, layers)), r the state these left.
CountFinished(r) ==
    /\ ppc = "channels"
    /\ CountReturns(IF r.st # "ok" THEN Fail(r)
                    ELSE [st |-> "ok", rest |-> pparts.follow, vals |-> <<Last(r)>>])
    /\ UNCHANGED <<pinput, pbuild, pin>>
    /\ UNCHANGED <<treeVars, rleVars, cacheVars, detachVars, envVars>>

CountChannels ==
    CountFinished(IntoLayerTree(SortChannelData(parse_channel_image_data(
        [st |-> "ok", rest |-> prest, vals |-> <<pparts.layer_records>>]), pbuild)))

CountNext ==
    \/ CountRead
    \/ CountRecord
    \/ CountLoopDone
    \/ CountChannels

SpecLayerCount == CountInit /\ [][CountNext]_vars

\* The iterations give what parse_layer_info gives.
CountStepsAgree ==
    ppc = "return" => pout = parse_layer_info(Start(pinput), pbuild)

\* The absolute value of an integer.
Magnitude(n) == IF n < 0 THEN 0 - n ELSE n

\* For every count but -32768, the channel image data are read after
\* |layer_count| records.
CountIsAbsoluteAboveMin ==
    (ppc = "channels" /\ pin.count # -32768) =>
        Len(pparts.layer_records) = Magnitude(pin.count)

\* For -32768, abs() has no i16 result: a build that checks overflow
\* panics, one that does not reads no record at all and returns the empty
\* layer list of a sub-frame without records.
MinCountDependsOnBuild ==
    (ppc = "return" /\ pin.count = -32768) =>
        IF pbuild = "debug" THEN pout.st = "panic"
        ELSE pin.held = 0 => (pout.st = "ok" /\ pout.vals = <<<<>>>>)

\* C21 (as the spec states it): for every signed 16-bit layer_count,
\* negative values and -32768 included, parse_layer_info has parsed exactly
\* |layer_count| layer records when it reads the channel image data.
C21_AbsoluteCountOfRecords ==
    ppc = "channels" => Len(pparts.layer_records) = Magnitude(pin.count)

=============================================================================
